---- MODULE Spec2Model ----
(***************************************************************************)
(* Verification model of the OpenSPH core:                                 *)
(*   - the hard-sphere collision resolver  (lib/gravity/NBodySolver.cpp)   *)
(*   - the boundary conditions             (core/sph/boundary/Boundary.cpp)*)
(*                                                                         *)
(* Collision resolver.  Particles move on a line (y = z = 0), so that the  *)
(* vector algebra of checkCollision is exact in integers: with             *)
(* dr = r1 - r2 and dv = v1 - v2 collinear, dr_perp = 0 and                *)
(*   det  = 1 - (dr^2 - R^2)/(dv.dr)^2 * dv^2 = R^2/dr^2,                  *)
(*   root = 1 + R/|dr| if det > 1, 1 - R/|dr| otherwise,                   *)
(*   t    = -dv.dr/dv^2 * root = (|dr| + R)/|dv| resp. (|dr| - R)/|dv|.    *)
(* Lengths and times are integers in units of 1/Scale.                     *)
(***************************************************************************)
EXTENDS Integers, Sequences, FiniteSets, TLC

VARIABLES
    (* ---- HardSphereSolver and the storage it works on ---- *)
    r,              \* POSITION values (x), one per particle, fine units
    v,              \* POSITION first derivatives (velocities)
    h,              \* r[i][H], the particle radii, fine units
    rBuild,         \* positions handed to collision.finder->buildWithRank
    rank,           \* rank of each particle in the finder
    overlapsAll,    \* what overlap.handler->overlaps(i, j) answers
    searchRadii,    \* HardSphereSolver::searchRadii
    threadColl,     \* ThreadData::collisions, one list per thread
    swept,          \* particles the first pass has visited
    collisions,     \* HardSphereSolver::collisions
    removed,        \* HardSphereSolver::removed
    cs,             \* CollisionStats counters
    stats,          \* Statistics written by ~CollisionStats
    pc,             \* position inside collide()
    handled,        \* history: records given to a handler, with the result
    skips,          \* history: pairs checkCollision rejected in this step
    depStores,      \* the storages dependent on the storage of collide()
    written,        \* history: the writes of the first pass to searchRadii
    (* ---- boundary conditions and the storage they work on ---- *)
    st,             \* the storage: one sequence per quantity buffer
    userData,       \* Storage user data (GhostParticlesData) or NoData
    bc,             \* which boundary condition object is installed
    ghosts,         \* <BC>::ghosts
    ghostIdxs,      \* <BC>::ghostIdxs
    particleCnt,    \* GhostParticles::particleCnt
    phase,          \* position of the boundary condition in the step
    hist,           \* history: what the properties compare against
    dependent,      \* the dependent storages registered with the storage
    frozen,         \* FrozenParticles::frozen
    (* ---- components checked on their own ---- *)
    finder,         \* the neighbour finder: the build and the queries made
    gravSolver,     \* GravitySolver: its equations and the outcome of the set-up
    stepper,        \* the time-stepping object and the quantity it integrates
    pool,           \* ThreadPool / SequentialScheduler: tasks and workers
    cached,         \* CachedGravity and the gravity it wraps
    list,           \* List<T>: the nodes and the iterators of the caller
    bvh             \* Bvh<TBvhObject>: the objects, the nodes and the work stacks

collideVars == <<r, v, h, rBuild, rank, overlapsAll, searchRadii, threadColl, swept,
                 collisions, removed, cs, stats, pc, handled, skips, depStores,
                 written>>
boundaryVars == <<st, userData, bc, ghosts, ghostIdxs, particleCnt, phase, hist,
                  dependent, frozen>>
auxVars == <<finder, gravSolver, stepper, pool, cached, list, bvh>>
vars == <<collideVars, boundaryVars, auxVars>>

(***************************************************************************)
(* Bounds of the model                                                     *)
(***************************************************************************)
MaxParticles == 3
MaxPos == 4
MaxEvents == 2
DtUnits == 2
NumThreads == 2
MaxDependents == 2

(***************************************************************************)
(* Program constants                                                       *)
(***************************************************************************)
\* overlap.allowedRatio = AllowedRatioNum / AllowedRatioDen
AllowedRatioNum == 3
AllowedRatioDen == 4

RECURSIVE Pow2(_)
Pow2(k) == IF k = 0 THEN 1 ELSE 2 * Pow2(k - 1)

\* every event may halve the resolution of positions and times once
Scale == Pow2(MaxEvents + 3)
Dt == DtUnits * Scale
\* EPS of the interval (t_coll + EPS, dt): the smallest time the model resolves
\* without losing exactness of the divisions by |dv|
EPS == Scale \div 4

Abs(x) == IF x < 0 THEN -x ELSE x
sqr(x) == x * x

Vel == {-1, 0, 1}
Radii == {Scale, 2 * Scale}
PosSet == {x * Scale : x \in 0..MaxPos}
\* the dynamics do not depend on the origin: the first particle starts in the
\* middle of the range
Anchor == (MaxPos \div 2) * Scale
\* only the first particle may be a large one
StartRadii(n) == {f \in [1..n -> Radii] : \A k \in 2..n : f[k] = Scale}
StartPositions(n) == {f \in [1..n -> PosSet] : n > 0 => f[1] = Anchor}

INFTY == 1000000
NOTHING == -1

Particles == 1..Len(r)

(***************************************************************************)
(* CollisionRecord                                                         *)
(* The overlap value 1 - d^2/R^2 is kept as the pair (ovd, ovR) = (d, R);  *)
(* a record made by COLLISION has overlap 0, kept as d = R = 1.            *)
(***************************************************************************)
COLLISION(i, j, time) == [i |-> i, j |-> j, collisionTime |-> time, ovd |-> 1, ovR |-> 1]

OVERLAP(i, j, time, d, R) == [i |-> i, j |-> j, collisionTime |-> time, ovd |-> d, ovR |-> R]

\* CollisionRecord{} : collisionTime = INFINITY, overlap = 0
NoRecord == [i |-> 0, j |-> 0, collisionTime |-> INFTY, ovd |-> 1, ovR |-> 1]

isOverlap(c) == c.ovd < c.ovR

\* explicit operator bool
IsSome(c) == isOverlap(c) \/ c.collisionTime < INFTY

\* -overlap(a) < -overlap(b), i.e. d_a/R_a < d_b/R_b
MoreOverlap(a, b) == a.ovd * b.ovR < b.ovd * a.ovR
SameOverlap(a, b) == a.ovd * b.ovR = b.ovd * a.ovR

\* operator< : the tuple (collisionTime, -overlap, i, j)
RecordLess(a, b) ==
    \/ a.collisionTime < b.collisionTime
    \/ /\ a.collisionTime = b.collisionTime
       /\ \/ MoreOverlap(a, b)
          \/ /\ SameOverlap(a, b)
             /\ \/ a.i < b.i
                \/ a.i = b.i /\ a.j < b.j

\* min over a non-empty set of records, by operator<
MinRecord(S) == CHOOSE c \in S : \A d \in S : d = c \/ RecordLess(c, d)

(***************************************************************************)
(* HardSphereSolver::checkCollision, on a line                             *)
(***************************************************************************)
\* variant without the test `t_coll <= dt`
checkCollisionMissingBound(r1, v1, h1, r2, v2, h2, dt) ==
    LET dr == r1 - r2
        dv == v1 - v2
        dvdr == dv * dr
        R == h1 + h2
    IN  IF dvdr >= 0 THEN NOTHING
        ELSE IF sqr(dr) < sqr(R) THEN (Abs(dr) + R) \div Abs(dv)
             ELSE (Abs(dr) - R) \div Abs(dv)

checkCollision(r1, v1, h1, r2, v2, h2, dt) ==
    LET dr == r1 - r2
        dv == v1 - v2
        dvdr == dv * dr
        R == h1 + h2
        \* det > 1 iff the spheres already intersect: the larger root is taken
        t_coll == IF sqr(dr) < sqr(R) THEN (Abs(dr) + R) \div Abs(dv)
                  ELSE (Abs(dr) - R) \div Abs(dv)
    IN  IF dvdr >= 0 THEN NOTHING              \* not moving towards each other
        ELSE IF t_coll <= dt THEN t_coll
        ELSE NOTHING

(***************************************************************************)
(* The finder: findLowerRank and findAll on the positions of the last      *)
(* build                                                                   *)
(***************************************************************************)
RankKey(i) == h[i] + Abs(v[i]) * Dt

\* the permutations a sort by the comparator of collide() can produce
RankOrders ==
    {rk \in [Particles -> Particles] :
        /\ \A a, b \in Particles : a # b => rk[a] # rk[b]
        /\ \A a, b \in Particles : RankKey(a) < RankKey(b) => rk[a] < rk[b]}

findLowerRank(i, radius) ==
    {j \in Particles : rank[j] < rank[i] /\ Abs(rBuild[j] - rBuild[i]) <= radius}

findAll(i, radius) ==
    {j \in Particles : Abs(rBuild[j] - rBuild[i]) <= radius}

(***************************************************************************)
(* HardSphereSolver::findClosestCollision                                  *)
(* The finder returns the neighbours in an order of its own; the loop      *)
(* returns at the first overlap it meets.  The operator gives every        *)
(* outcome some order of the neighbours produces:                          *)
(*   rec     the record returned                                           *)
(*   radii   searchRadii afterwards                                        *)
(*   skipped the number of pairs checkCollision rejected on the way        *)
(***************************************************************************)
overlapExceeds(d, R) ==
    \* overlapValue = 1 - d^2/R^2 > sqr(overlap.allowedRatio)
    (sqr(R) - sqr(d)) * sqr(AllowedRatioDen) > sqr(AllowedRatioNum) * sqr(R)

overlapExceedsLinear(d, R) ==
    \* (R - d)/R > overlap.allowedRatio
    (R - d) * AllowedRatioDen > AllowedRatioNum * R

DistAt(rr, vv, i, j, t) == Abs((rr[i] + vv[i] * t) - (rr[j] + vv[j] * t))

\* variant that looks at no removal set
skipsNone(j, rem) == FALSE

\* "particle already removed, skip"
skipsRemoved(j, rem) == j \in rem

findClosestCollision(rr, vv, i, opt, lower, upper, rem) ==
    LET radius == h[i] + Abs(vv[i]) * upper
        neighs == IF opt = "FIND_LOWER_RANK"
                  THEN findLowerRank(i, 2 * radius)
                  ELSE findAll(i, 2 * searchRadii[i])
        cand == {j \in neighs : ~(i = j \/ skipsRemoved(j, rem))}
        over == {j \in cand : overlapExceeds(DistAt(rr, vv, i, j, lower), h[i] + h[j])}
        ovl == IF overlapsAll THEN over ELSE {}
        tc(j) == checkCollision(rr[i] + vv[i] * lower, vv[i], h[i],
                                rr[j] + vv[j] * lower, vv[j], h[j], upper - lower)
        hits == {j \in cand \ over : tc(j) # NOTHING}
        colls == {COLLISION(i, j, tc(j) + lower) : j \in hits}
        closest == IF colls = {} THEN NoRecord ELSE MinRecord(colls)
        rejected(S) == Cardinality({j \in (S \cap cand) \ over : tc(j) = NOTHING})
        \* the elements of searchRadii assigned when the neighbours W are visited
        wrote(W) == IF opt = "FIND_LOWER_RANK" /\ W # {} THEN W \cup {i} ELSE {}
        write(W) == [k \in Particles |->
                        IF k \in wrote(W) THEN radius ELSE searchRadii[k]]
    IN  IF opt = "USE_RADII" /\ ~(searchRadii[i] > 0)
        THEN {[rec |-> NoRecord, radii |-> searchRadii, wrote |-> {}, skipped |-> 0]}
        ELSE IF ovl = {}
        THEN {[rec |-> closest, radii |-> write(neighs), wrote |-> wrote(neighs),
               skipped |-> rejected(neighs)]}
        ELSE {[rec |-> OVERLAP(i, j, lower, DistAt(rr, vv, i, j, lower), h[i] + h[j]),
               radii |-> write(W \cup {j}),
               wrote |-> wrote(W \cup {j}),
               skipped |-> rejected(W)] :
                  j \in ovl,
                  W \in IF opt = "FIND_LOWER_RANK" THEN SUBSET (neighs \ ovl) ELSE {{}}}

Range(q) == {q[k] : k \in DOMAIN q}

(***************************************************************************)
(* Array helpers                                                           *)
(***************************************************************************)
\* std::swap(a[idx], a.back()); a.pop();
SwapPop(a, idx) == SubSeq([a EXCEPT ![idx] = a[Len(a)]], 1, Len(a) - 1)

\* the indices of a that stay when the indices in idxs are removed, in order
RECURSIVE Kept(_, _, _)
Kept(n, idxs, k) ==
    IF k > n THEN <<>>
    ELSE IF k \in idxs THEN Kept(n, idxs, k + 1)
    ELSE <<k>> \o Kept(n, idxs, k + 1)

\* Array::remove(idxs)
RemoveIdxs(a, idxs) ==
    LET keep == Kept(Len(a), idxs, 1)
    IN  [k \in 1..Len(keep) |-> a[keep[k]]]

RECURSIVE Concat(_, _)
Concat(lists, k) ==
    IF k > Len(lists) THEN <<>> ELSE lists[k] \o Concat(lists, k + 1)

RECURSIVE SortedSeq(_)
SortedSeq(S) ==
    IF S = {} THEN <<>>
    ELSE LET m == CHOOSE x \in S : \A y \in S : x <= y
         IN  <<m>> \o SortedSeq(S \ {m})

(***************************************************************************)
(* The handlers injected by the caller: ICollisionHandler::collide and     *)
(* IOverlapHandler::handle change the velocities of i and j and may put    *)
(* one of them into the removal set.                                       *)
(***************************************************************************)
HandlerEffects(i, j) ==
    {[result |-> "NONE", vi |-> v[i], vj |-> v[j], rem |-> {}]}
    \cup {[result |-> "BOUNCE", vi |-> v[j], vj |-> v[i], rem |-> {}],
          [result |-> "BOUNCE", vi |-> -v[i], vj |-> -v[j], rem |-> {}]}
    \cup {[result |-> "MERGER", vi |-> w, vj |-> v[j], rem |-> {j}] : w \in {v[i], v[j]}}
    \cup {[result |-> "MERGER", vi |-> v[i], vj |-> v[j], rem |-> {i}]}

(***************************************************************************)
(* CollisionStats                                                          *)
(***************************************************************************)
NoStats == [collisionCount |-> 0, mergerCount |-> 0, bounceCount |-> 0, overlapCount |-> 0]

\* variant that counts no collision for the result NONE
clasifyUncounted(c, result) ==
    [c EXCEPT !.bounceCount = @ + (IF result = "BOUNCE" THEN 1 ELSE 0),
              !.mergerCount = @ + (IF result = "MERGER" THEN 1 ELSE 0),
              !.collisionCount = @ + (IF result = "NONE" THEN 0 ELSE 1)]

clasify(c, result) ==
    [c EXCEPT !.collisionCount = @ + 1,
              !.bounceCount = @ + (IF result = "BOUNCE" THEN 1 ELSE 0),
              !.mergerCount = @ + (IF result = "MERGER" THEN 1 ELSE 0)]

(***************************************************************************)
(* Pieces of the processing loop of HardSphereSolver::collide              *)
(***************************************************************************)
\* "find first collision in the list": the first index whose time is below
\* every time before it and not above any time after it
FirstIdx(colls) ==
    CHOOSE idx \in 1..Len(colls) :
        /\ \A k \in 1..Len(colls) : colls[idx].collisionTime <= colls[k].collisionTime
        /\ \A k \in 1..(idx - 1) : colls[k].collisionTime > colls[idx].collisionTime

\* variant that compares the first particle of a record only
RECURSIVE InvalidateByFirst(_, _, _, _, _)
InvalidateByFirst(colls, idx, i, j, invalidIdxs) ==
    IF idx > Len(colls) THEN [colls |-> colls, invalidIdxs |-> invalidIdxs]
    ELSE LET c == colls[idx]
         IN  IF c.i = i \/ c.i = j
             THEN InvalidateByFirst(SwapPop(colls, idx), idx, i, j, invalidIdxs \cup {c.i, c.j})
             ELSE InvalidateByFirst(colls, idx + 1, i, j, invalidIdxs)

\* variant that scans again from the time of the event
rescanFromEvent(t_coll) == t_coll

\* the lower end of "const Interval interval(t_coll + EPS, dt)"
rescanFrom(t_coll) == t_coll + EPS

\* "remove all collisions containing either i or j"
RECURSIVE Invalidate(_, _, _, _, _)
Invalidate(colls, idx, i, j, invalidIdxs) ==
    IF idx > Len(colls) THEN [colls |-> colls, invalidIdxs |-> invalidIdxs]
    ELSE LET c == colls[idx]
         IN  IF c.i = i \/ c.i = j \/ c.j = i \/ c.j = j
             THEN Invalidate(SwapPop(colls, idx), idx, i, j, invalidIdxs \cup {c.i, c.j})
             ELSE Invalidate(colls, idx + 1, i, j, invalidIdxs)

SamePair(c, i, j) == (c.i = i /\ c.j = j) \/ (c.j = i /\ c.i = j)

\* the re-scan of the particles in idxs (ascending), each outcome a pair of the
\* collision list afterwards and the number of pairs rejected
RECURSIVE Rescan(_, _, _, _, _, _, _, _, _)
Rescan(rr, vv, rem, idxs, k, i, j, lower, acc) ==
    IF k > Len(idxs) THEN {acc}
    ELSE IF idxs[k] \in rem
    THEN Rescan(rr, vv, rem, idxs, k + 1, i, j, lower, acc)
    ELSE UNION {
        Rescan(rr, vv, rem, idxs, k + 1, i, j, lower,
               [colls |-> IF IsSome(out.rec) /\ ~SamePair(out.rec, i, j)
                          THEN Append(acc.colls, out.rec) ELSE acc.colls,
                skipped |-> acc.skipped + out.skipped]) :
        out \in findClosestCollision(rr, vv, idxs[k], "USE_RADII", lower, Dt, rem)}

(***************************************************************************)
(* Storage: one array per buffer.  r, v, dv are the value and the two      *)
(* derivatives of POSITION, flag the value of FLAG; id is history, the     *)
(* number of the particle in the initial store, 0 for a particle made by   *)
(* duplicate or merge.                                                     *)
(***************************************************************************)
Buffers == {"r", "v", "dv", "flag", "id"}

EmptyStorage == [b \in Buffers |-> <<>>]

\* no user data set: storage.setUserData(nullptr)
NoData == [has |-> FALSE, ghosts |-> <<>>]

\* the history of the boundary run before the first call
NoHist ==
    [idsBefore |-> <<>>, stFirst |-> EmptyStorage, inits |-> 0, single |-> 0,
     cntFirst |-> 0, removedIdxs |-> {}, udBefore |-> <<>>,
     depFirst |-> <<>>, lastCall |-> <<>>]

(***************************************************************************)
(* The tasks of parallelFor assign elements of the member searchRadii      *)
(* without synchronisation.  wr[k] holds the assignments made to element   *)
(* k, each with the task (the particle i of the iteration) and the value.  *)
(***************************************************************************)
\* the arrays the assignments can leave behind once all tasks have ended
raceOutcomes(radii, wr) ==
    {f \in [DOMAIN radii -> {radii[k] : k \in DOMAIN radii}
                              \cup UNION {{w.value : w \in wr[k]} : k \in DOMAIN wr}] :
        \A k \in DOMAIN radii :
            IF wr[k] = {} THEN f[k] = radii[k]
            ELSE f[k] \in {w.value : w \in wr[k]}}

(***************************************************************************)
(* "apply the removal list": Storage::remove on the buffers of the storage *)
(* and, through Storage::propagate, on those of every dependent storage.   *)
(* A dependent storage is kept as one column, the index each of its rows   *)
(* had at the start of the step.                                           *)
(***************************************************************************)
\* variant that leaves the dependent storages as they are
applyRemovalUnpropagated(store, deps, rem) ==
    [store |-> IF rem = {} THEN store
               ELSE [b \in DOMAIN store |-> RemoveIdxs(store[b], rem)],
     deps |-> deps]

applyRemoval(store, deps, rem) ==
    IF rem = {} THEN [store |-> store, deps |-> deps]
    ELSE [store |-> [b \in DOMAIN store |-> RemoveIdxs(store[b], rem)],
          deps |-> [d \in DOMAIN deps |-> RemoveIdxs(deps[d], rem)]]

(***************************************************************************)
(* HardSphereSolver::collide, one action per stage                         *)
(***************************************************************************)
BoundaryIdle ==
    /\ st = EmptyStorage /\ userData = NoData /\ bc = "none" /\ ghosts = <<>>
    /\ ghostIdxs = <<>> /\ particleCnt = 0 /\ phase = "idle" /\ hist = NoHist
    /\ dependent = <<>> /\ frozen = {}

\* the components that take no part in the run
FinderIdle == finder = <<>>
GravSolverIdle == gravSolver = <<>>
StepperIdle == stepper = <<>>
PoolIdle == pool = <<>>
CachedIdle == cached = <<>>
ListIdle == list = <<>>
BvhIdle == bvh = <<>>

AuxIdle ==
    /\ FinderIdle /\ GravSolverIdle /\ StepperIdle /\ PoolIdle /\ CachedIdle /\ ListIdle
    /\ BvhIdle

InitCollide ==
    /\ r \in StartPositions(MaxParticles)
    /\ v \in [1..MaxParticles -> Vel]
    /\ h \in StartRadii(MaxParticles)
    /\ overlapsAll \in BOOLEAN
    /\ rBuild = r
    /\ rank = [k \in 1..MaxParticles |-> k]
    /\ searchRadii = [k \in 1..MaxParticles |-> 0]
    /\ threadColl = [t \in 1..NumThreads |-> <<>>]
    /\ swept = {}
    /\ collisions = <<>>
    /\ removed = {}
    /\ cs = NoStats
    /\ stats = NoStats
    /\ pc = "start"
    /\ handled = <<>>
    /\ skips = 0
    /\ depStores = [d \in 1..MaxDependents |-> [k \in 1..MaxParticles |-> k]]
    /\ written = [k \in 1..MaxParticles |-> {}]
    /\ BoundaryIdle
    /\ AuxIdle

\* lines 227-240: the rank build, and the reset of the per-step arrays
BuildWithRank ==
    /\ pc = "start"
    /\ rBuild' = r
    /\ rank' \in RankOrders
    /\ searchRadii' = [k \in Particles |-> 0]
    /\ threadColl' = [t \in 1..NumThreads |-> <<>>]
    /\ swept' = {}
    /\ pc' = "sweep"
    /\ written' = [k \in Particles |-> {}]
    /\ UNCHANGED <<r, v, h, overlapsAll, collisions, removed, cs, stats, handled, skips,
                   depStores>>
    /\ UNCHANGED <<boundaryVars, auxVars>>

\* lines 243-249: one iteration of the first pass, run by thread th
Sweep(i, th) ==
    /\ pc = "sweep"
    /\ i \in Particles \ swept
    /\ \E out \in findClosestCollision(r, v, i, "FIND_LOWER_RANK", 0, Dt, removed) :
        /\ searchRadii' = out.radii
        /\ written' = [k \in Particles |->
                          IF k \in out.wrote
                          THEN written[k] \cup {[task |-> i, value |-> out.radii[k]]}
                          ELSE written[k]]
        /\ threadColl' = IF IsSome(out.rec)
                         THEN [threadColl EXCEPT ![th] = Append(@, out.rec)]
                         ELSE threadColl
        /\ skips' = skips + out.skipped
    /\ swept' = swept \cup {i}
    /\ UNCHANGED <<r, v, h, rBuild, rank, overlapsAll, collisions, removed, cs, stats,
                   pc, handled, depStores>>
    /\ UNCHANGED <<boundaryVars, auxVars>>

\* lines 251-266: the thread-local lists are merged, the counters and the
\* removal set start empty
Reduce ==
    /\ pc = "sweep"
    /\ swept = Particles
    /\ collisions' = Concat(threadColl, 1)
    /\ cs' = NoStats
    /\ removed' = {}
    /\ pc' = "loop"
    \* the thread-local lists, the loop counter and the ranks are read no more
    \* in this step
    /\ threadColl' = [t \in 1..NumThreads |-> <<>>]
    /\ swept' = {}
    /\ rank' = [k \in Particles |-> k]
    \* the tasks of the first pass have ended: an element of searchRadii that
    \* several tasks assigned holds any one of the values assigned
    /\ searchRadii' \in raceOutcomes(searchRadii, written)
    /\ written' = [k \in Particles |-> {}]
    /\ UNCHANGED <<r, v, h, rBuild, overlapsAll, stats, handled, skips, depStores>>
    /\ UNCHANGED <<boundaryVars, auxVars>>

\* lines 275-356: one iteration of the processing loop
Process ==
    /\ pc = "loop"
    /\ collisions # <<>>
    /\ Len(handled) < MaxEvents
    /\ LET firstIdx == FirstIdx(collisions)
           col == collisions[firstIdx]
           t_coll == col.collisionTime
           i == col.i
           j == col.j
       IN \E eff \in HandlerEffects(i, j) :
          LET result == IF isOverlap(col) THEN "BOUNCE" ELSE eff.result
              vv == [v EXCEPT ![i] = eff.vi, ![j] = eff.vj]
              \* advanced by the old velocity, moved back by the new one
              rr == [r EXCEPT ![i] = r[i] + v[i] * t_coll - eff.vi * t_coll,
                              ![j] = r[j] + v[j] * t_coll - eff.vj * t_coll]
              rem == removed \cup eff.rem
              inv == Invalidate(collisions, 1, i, j, {})
              lower == rescanFrom(t_coll)
          IN /\ r' = rr
             /\ v' = vv
             /\ removed' = rem
             /\ cs' = IF isOverlap(col)
                      THEN [cs EXCEPT !.overlapCount = @ + 1]
                      ELSE clasify(cs, result)
             /\ handled' = Append(handled,
                    [rec |-> col, result |-> result,
                     handler |-> IF isOverlap(col) THEN "overlap" ELSE "collision",
                     returned |-> eff.result,
                     approach |-> (v[i] - v[j]) * (r[i] - r[j]) < 0])
             /\ IF result = "NONE"
                THEN /\ collisions' = SwapPop(collisions, firstIdx)
                     /\ skips' = skips
                ELSE IF lower > Dt            \* interval.empty()
                THEN /\ collisions' = inv.colls
                     /\ skips' = skips
                ELSE \E out \in Rescan(rr, vv, rem, SortedSeq(inv.invalidIdxs), 1, i, j,
                                       lower, [colls |-> inv.colls, skipped |-> 0]) :
                     /\ collisions' = out.colls
                     /\ skips' = skips + out.skipped
    /\ UNCHANGED <<h, rBuild, rank, overlapsAll, searchRadii, threadColl, swept, stats, pc,
                   depStores, written>>
    /\ UNCHANGED <<boundaryVars, auxVars>>

\* line 290, debug build: ASSERT(t_coll < dt)
ProcessAssert ==
    /\ pc = "loop"
    /\ collisions # <<>>
    /\ Len(handled) < MaxEvents
    /\ ~(collisions[FirstIdx(collisions)].collisionTime < Dt)
    /\ pc' = "failed"
    /\ UNCHANGED <<r, v, h, rBuild, rank, overlapsAll, searchRadii, threadColl, swept,
                   collisions, removed, cs, stats, handled, skips, depStores, written>>
    /\ UNCHANGED <<boundaryVars, auxVars>>

\* lines 358-367: the removal list is applied, ~CollisionStats exports
Finish ==
    /\ pc = "loop"
    /\ collisions = <<>>
    /\ LET out == applyRemoval([r |-> r, v |-> v, h |-> h], depStores, removed)
       IN  /\ r' = out.store.r
           /\ v' = out.store.v
           /\ h' = out.store.h
           /\ depStores' = out.deps
    /\ stats' = cs
    /\ pc' = "done"
    /\ UNCHANGED <<rBuild, rank, overlapsAll, searchRadii, threadColl, swept, collisions,
                   removed, cs, handled, skips, written>>
    /\ UNCHANGED <<boundaryVars, auxVars>>

\* between two calls of collide the integrator moves the particles and
\* changes their velocities; the members of the solver stay as they are
NextStep ==
    /\ pc = "done"
    /\ Len(r) > 0
    \* a step that removed nothing returns to a state of InitCollide
    /\ Len(r) < MaxParticles
    /\ r' \in StartPositions(Len(r))
    /\ v' \in [Particles -> Vel]
    /\ pc' = "start"
    /\ collisions' = <<>>
    /\ cs' = NoStats
    /\ stats' = NoStats
    /\ handled' = <<>>
    /\ skips' = 0
    /\ depStores' = [d \in DOMAIN depStores |-> [k \in Particles |-> k]]
    /\ written' = [k \in Particles |-> {}]
    /\ swept' = {}
    /\ rBuild' = r'
    /\ rank' = [k \in Particles |-> k]
    /\ searchRadii' = [k \in Particles |-> 0]
    /\ threadColl' = [t \in 1..NumThreads |-> <<>>]
    /\ UNCHANGED <<h, overlapsAll, removed>>
    /\ UNCHANGED <<boundaryVars, auxVars>>

NextCollide ==
    \/ BuildWithRank
    \/ \E i \in 1..MaxParticles, th \in 1..NumThreads : Sweep(i, th)
    \/ Reduce
    \/ Process
    \/ ProcessAssert
    \/ Finish
    \/ NextStep

SpecCollide == InitCollide /\ [][NextCollide]_vars

\* the steps that start with particles of one size
InitCollideLive ==
    /\ InitCollide
    /\ \A k \in 1..MaxParticles : h[k] = Scale

CollisionResults == {"NONE", "BOUNCE", "MERGER"}

\* an iteration of the processing loop as the history shows it: the first
\* record of the least time has been given to its handler
Iterate ==
    /\ pc = "loop"
    /\ collisions # <<>>
    /\ Len(handled) < MaxEvents
    /\ LET col == collisions[FirstIdx(collisions)]
       IN  \E result \in CollisionResults, returned \in CollisionResults, b \in BOOLEAN :
              handled' = Append(handled,
                  [rec |-> col, result |-> result,
                   handler |-> IF isOverlap(col) THEN "overlap" ELSE "collision",
                   returned |-> returned, approach |-> b])

\* The loop of collide() runs on the calling thread and goes on as long as
\* its condition holds: an iteration that can be made is made, and the
\* statements after the loop are reached once the queue is empty.  Every
\* step of Process is a step of Iterate that changes the history.
SpecCollideLive ==
    InitCollideLive /\ [][NextCollide]_vars /\ WF_handled(Iterate) /\ WF_vars(Finish)

(***************************************************************************)
(* Boundary conditions.  The particles lie on the z axis (x = y = 0, in    *)
(* the middle of a domain wide enough that only the faces z = BoxLo and    *)
(* z = BoxHi are near); z is an integer in tenths of the smoothing length. *)
(***************************************************************************)
MaxBcParticles == 2
MaxInits == 2
MaxFinderParticles == 3
MaxFinderPos == 2
MaxFinderRadius == 2
MaxMaterials == 2
MaxLoops == 2
MaxSteps == 4
MaxTasks == 4
MaxWorkers == 2
MaxGravParticles == 2
MaxPeriod == 2
MaxRunTime == 4
MaxAccel == 2
MaxBuilds == 2
MaxEvalCalls == 4
MaxNodes == 4
MaxIterators == 2
MaxObjects == 4
MaxExponent == 3
MaxLeafSize == 2

\* r[i][H] in tenths, the same for every particle
HUnit == 10
\* the faces of the Box of BlockDomain and PeriodicBoundary
BoxLo == 0
BoxHi == 60
\* GhostParticles::params.searchRadius (kernel radius) and minimalDist (tenths)
SearchRadius == 2
MinimalDistTenths == 1
\* "const Float radius = 2._f" of PeriodicBoundary and SymmetricBoundary
GhostRadius == 2
\* GhostParticles::FLAG = Size(-1), also the flag of the dummy particles
FLAG == -1
\* FrozenParticles::radius of the wind tunnel
FreezeRadius == 1

BoxSize == BoxHi - BoxLo
ZSet == {-70, -5, 5, 30, 58, 65}
BodyFlags == {0, 1}
BcKinds == {"ghost", "periodic", "symmetric", "fixed", "windtunnel", "kill",
            "frozen", "frozenbody"}
\* FrozenParticles and the class derived from it
FrozenKinds == {"frozen", "frozenbody", "windtunnel"}
GhostKinds == {"ghost", "periodic", "symmetric"}

\* z of the dummy particles of FixedParticles::fixedParticles, outside the box
FixedZ == <<-15, 75>>

\* Storage::getParticleCnt
getParticleCnt(s) == Len(s.r)

\* Storage::isValid as far as the sizes go
isValid(s) == \A b \in Buffers : Len(s[b]) = Len(s.r)

\* Storage::duplicate(idxs): copies of the rows idxs, appended in this order
duplicate(s, idxs) ==
    [b \in Buffers |->
        s[b] \o [k \in 1..Len(idxs) |-> IF b = "id" THEN 0 ELSE s[b][idxs[k]]]]

\* the indices Storage::duplicate returns
duplicateIdxs(s, idxs) == [k \in 1..Len(idxs) |-> getParticleCnt(s) + k]

\* Storage::merge(other)
merge(s, other) == [b \in Buffers |-> s[b] \o other[b]]

\* Storage::remove(idxs, flags) on the buffers
remove(s, idxs) == [b \in Buffers |-> RemoveIdxs(s[b], Range(idxs))]

\* std::binary_search(idxs.begin(), idxs.end(), pi): lower_bound by bisection
RECURSIVE lower_bound(_, _, _, _)
lower_bound(a, first, count, x) ==
    IF count <= 0 THEN first
    ELSE LET step == count \div 2
             it == first + step
         IN  IF a[it] < x
             THEN lower_bound(a, it + 1, count - (step + 1), x)
             ELSE lower_bound(a, first, step, x)

binary_search(a, x) ==
    LET it == lower_bound(a, 1, Len(a), x)
    IN  it <= Len(a) /\ ~(x < a[it])

\* variant that steps on after the swap, past the ghost swapped in
RECURSIVE GhostParticlesData_removeSkipping(_, _, _)
GhostParticlesData_removeSkipping(gs, idxs, i) ==
    IF i > Len(gs) THEN gs
    ELSE IF binary_search(idxs, gs[i].index)
    THEN GhostParticlesData_removeSkipping(SwapPop(gs, i), idxs, i + 1)
    ELSE GhostParticlesData_removeSkipping(gs, idxs, i + 1)

\* GhostParticlesData::remove, the loop from position i on
RECURSIVE GhostParticlesData_remove(_, _, _)
GhostParticlesData_remove(gs, idxs, i) ==
    IF i > Len(gs) THEN gs
    ELSE IF binary_search(idxs, gs[i].index)
    THEN GhostParticlesData_remove(SwapPop(gs, i), idxs, i)
    ELSE GhostParticlesData_remove(gs, idxs, i + 1)

(***************************************************************************)
(* Domains                                                                 *)
(***************************************************************************)
Max(a, b) == IF a > b THEN a ELSE b
Min(a, b) == IF a < b THEN a ELSE b

\* Box::contains, the boundary belongs to the box
BoxContains(z) == ~(z < BoxLo \/ z > BoxHi)

\* BlockDomain::project
BlockProject(rr) ==
    [i \in DOMAIN rr |-> IF ~BoxContains(rr[i]) THEN Min(Max(rr[i], BoxLo), BoxHi) ELSE rr[i]]

\* BlockDomain::addGhosts for the particles from i on; eta * h and eps * h in tenths
RECURSIVE BlockAddGhosts(_, _)
BlockAddGhosts(rr, i) ==
    IF i > Len(rr) THEN <<>>
    ELSE IF ~BoxContains(rr[i]) THEN BlockAddGhosts(rr, i + 1)
    ELSE LET limit == SearchRadius * HUnit
             d1 == Max(rr[i] - BoxLo, MinimalDistTenths)
             d2 == Max(BoxHi - rr[i], MinimalDistTenths)
             lo == IF d1 < limit THEN <<[position |-> rr[i] - 2 * d1, index |-> i]>> ELSE <<>>
             hi == IF d2 < limit THEN <<[position |-> rr[i] + 2 * d2, index |-> i]>> ELSE <<>>
         IN  lo \o hi \o BlockAddGhosts(rr, i + 1)

\* HalfSpaceDomain::contains and ::project
HalfSpaceContains(z) == z > 0

HalfSpaceProject(rr) == [i \in DOMAIN rr |-> IF ~HalfSpaceContains(rr[i]) THEN 0 ELSE rr[i]]

(***************************************************************************)
(* The handlers: what initialize and finalize compute                      *)
(***************************************************************************)
\* makeShared<GhostParticlesData>(std::move(ghosts))
GhostParticlesData(gs) == [has |-> TRUE, ghosts |-> gs]

\* a[gi[k]] = vals[k] for every k in 1..n
SetAt(a, gi, vals, n) ==
    [m \in DOMAIN a |->
        IF \E k \in 1..n : gi[k] = m
        THEN vals[CHOOSE k \in 1..n : gi[k] = m]
        ELSE a[m]]

Indices(gs) == [k \in DOMAIN gs |-> gs[k].index]
Positions(gs) == [k \in DOMAIN gs |-> gs[k].position]

\* GhostParticles::initialize: the storage, ghosts and ghostIdxs afterwards
GhostParticles_initialize(s) ==
    LET r1 == BlockProject(s.r)
        gs == BlockAddGhosts(r1, 1)
        idxs == Indices(gs)
        gi == duplicateIdxs(s, idxs)
        s2 == duplicate([s EXCEPT !.r = r1], idxs)
        n == Len(gs)
        \* v0 = v[ghostIdx] - 2 * normal * dot(normal, v[index]), normal = +-1
        v0 == [k \in 1..n |-> s2.v[gi[k]] - 2 * s2.v[idxs[k]]]
    IN  [st |-> [s2 EXCEPT !.r = SetAt(s2.r, gi, Positions(gs), n),
                           !.v = SetAt(s2.v, gi, v0, n),
                           !.flag = SetAt(s2.flag, gi, [k \in 1..n |-> FLAG], n)],
         ghosts |-> gs,
         ghostIdxs |-> gi]

\* PeriodicBoundary::initialize, the loop over the particles from i on:
\* the positions after the wrap and the ghosts pushed
\* variant that leaves the particles above the box where they are
WrapFromBelowOnly(z) == z + BoxSize * (IF z < BoxLo THEN 1 ELSE 0)

Wrap(z) ==
    z + BoxSize * ((IF z < BoxLo THEN 1 ELSE 0) - (IF z > BoxHi THEN 1 ELSE 0))

RECURSIVE PeriodicGhosts(_, _)
PeriodicGhosts(rr, i) ==
    IF i > Len(rr) THEN <<>>
    ELSE LET z == Wrap(rr[i])
             lo == IF z < BoxLo + GhostRadius * HUnit
                   THEN <<[position |-> z + BoxSize, index |-> i]>> ELSE <<>>
             hi == IF z > BoxHi - GhostRadius * HUnit
                   THEN <<[position |-> z - BoxSize, index |-> i]>> ELSE <<>>
         IN  lo \o hi \o PeriodicGhosts(rr, i + 1)

\* oob is the set of particles whose flag a write through ghostIdxs[i] with
\* i >= ghostIdxs.size() lands on
PeriodicBoundary_initialize(s, gs0, oob) ==
    LET r1 == [i \in DOMAIN s.r |-> Wrap(s.r[i])]
        pushed == PeriodicGhosts(s.r, 1)
        gs == gs0 \o pushed
        duplIdxs == Indices(pushed)
        gi == duplicateIdxs(s, duplIdxs)
        s2 == duplicate([s EXCEPT !.r = r1], duplIdxs)
        n == Len(gi)
        fl == SetAt(s2.flag, gi, [k \in 1..n |-> FLAG], n)
    IN  [st |-> [s2 EXCEPT !.r = SetAt(s2.r, gi, Positions(gs), n),
                           !.flag = [m \in DOMAIN fl |-> IF m \in oob THEN FLAG ELSE fl[m]]],
         ghosts |-> gs,
         ghostIdxs |-> gi]

\* SymmetricBoundary::initialize, the loop over the particles from i on
Lift(z) == IF z < 0 THEN HUnit \div 10 ELSE z

RECURSIVE SymmetricGhosts(_, _)
SymmetricGhosts(rr, i) ==
    IF i > Len(rr) THEN <<>>
    ELSE LET z == Lift(rr[i])
             g == [position |-> z - 2 * z, index |-> i]
             \* for (Size j = 0; j < 3; ++j)
             three == IF z < GhostRadius * HUnit THEN <<g, g, g>> ELSE <<>>
         IN  three \o SymmetricGhosts(rr, i + 1)

SymmetricBoundary_initialize(s, gs0) ==
    LET r1 == [i \in DOMAIN s.r |-> Lift(s.r[i])]
        pushed == SymmetricGhosts(s.r, 1)
        gs == gs0 \o pushed
        duplIdxs == Indices(pushed)
        gi == duplicateIdxs(s, duplIdxs)
        s2 == duplicate([s EXCEPT !.r = r1], duplIdxs)
    IN  [st |-> [s2 EXCEPT !.r = SetAt(s2.r, gi, Positions(gs), Len(gi))],
         ghosts |-> gs,
         ghostIdxs |-> gi]

\* variant that leaves the last ghost index out of the removal
finalizeLeavingLast(s, gi, gs) ==
    [st |-> remove(s, SubSeq(gi, 1, Len(gi) - 1)),
     ghostIdxs |-> <<>>,
     ghosts |-> <<>>,
     userData |-> GhostParticlesData(gs)]

\* <BC>::finalize of the three handlers with ghosts; idxs are sorted by
\* Storage::remove, no user data is set at this point
finalize(s, gi, gs) ==
    [st |-> remove(s, gi),
     ghostIdxs |-> <<>>,
     ghosts |-> <<>>,
     userData |-> GhostParticlesData(gs)]

\* FixedParticles::fixedParticles as the constructor leaves it
fixedParticles ==
    [b \in Buffers |->
        [k \in DOMAIN FixedZ |->
            CASE b = "r" -> FixedZ[k]
              [] b = "flag" -> FLAG
              [] OTHER -> 0]]

FixedParticles_initialize(s) == merge(s, fixedParticles)

\* variant that misses the first particle with the flag
RECURSIVE toRemoveAfterFirst(_, _, _)
toRemoveAfterFirst(flag, i, seen) ==
    IF i > Len(flag) THEN <<>>
    ELSE IF flag[i] = FLAG
    THEN (IF seen THEN <<i>> ELSE <<>>) \o toRemoveAfterFirst(flag, i + 1, TRUE)
    ELSE toRemoveAfterFirst(flag, i + 1, seen)

FixedParticles_toRemoveButFirst(flag) == toRemoveAfterFirst(flag, 1, FALSE)

\* FixedParticles::finalize: toRemove
FixedParticles_toRemove(flag) == SortedSeq({i \in DOMAIN flag : flag[i] = FLAG})

FixedParticles_finalize(s) == remove(s, FixedParticles_toRemove(s.flag))

\* FrozenParticles::freeze, FrozenParticles::thaw
freeze(fr, flag) == fr \cup {flag}
thaw(fr, flag) == fr \ {flag}

\* variant that looks at the distance from the boundary only
FrozenParticles_finalizeNearOnly(s, domain, fr) ==
    LET r1 == IF domain THEN HalfSpaceProject(s.r) ELSE s.r
        idxs == {i \in DOMAIN r1 : domain /\ r1[i] < FreezeRadius * HUnit}
    IN  [s EXCEPT !.r = r1,
                  !.dv = [i \in DOMAIN s.dv |-> IF i \in idxs THEN 0 ELSE s.dv[i]]]

\* FrozenParticles::finalize; domain tells whether the object was made with
\* a domain (the half space) or by the default constructor.  With a domain
\* the outside particles are projected and the particles closer to the plane
\* than radius * h are listed; then the particles of the frozen bodies are
\* listed; the highest derivatives of the listed particles are set to zero
FrozenParticles_finalize(s, domain, fr) ==
    LET r1 == IF domain THEN HalfSpaceProject(s.r) ELSE s.r
        near == {i \in DOMAIN r1 : domain /\ r1[i] < FreezeRadius * HUnit}
        byFlag == {i \in DOMAIN r1 : fr # {} /\ s.flag[i] \in fr}
        idxs == near \cup byFlag
    IN  [s EXCEPT !.r = r1,
                  !.dv = [i \in DOMAIN s.dv |-> IF i \in idxs THEN 0 ELSE s.dv[i]]]

\* variant that keeps the last particle outside the domain
KillEscapersBoundary_toRemoveButLast(rr) ==
    SortedSeq({i \in DOMAIN rr : ~BoxContains(rr[i]) /\ i < Len(rr)})

\* KillEscapersBoundary::initialize: toRemove, with the box as the domain
KillEscapersBoundary_toRemove(rr) == SortedSeq({i \in DOMAIN rr : ~BoxContains(rr[i])})

\* storage.propagate(fn) with fn = remove(idxs): every dependent storage
propagateRemove(deps, idxs) == [d \in DOMAIN deps |-> RemoveIdxs(deps[d], Range(idxs))]

\* variant that visits the values only, not the derivatives
removeFromValues(s, toRemove) ==
    [b \in Buffers |-> IF b \in {"v", "dv"} THEN s[b] ELSE RemoveIdxs(s[b], toRemove)]

\* iterate<VisitorEnum::ALL_BUFFERS>(storage, v.remove(toRemove))
removeFromAllBuffers(s, toRemove) == [b \in Buffers |-> RemoveIdxs(s[b], toRemove)]

WindTunnel_finalize(s, fr) ==
    LET s1 == FrozenParticles_finalize(s, TRUE, fr)
        toRemove == {i \in DOMAIN s1.r : ~HalfSpaceContains(s1.r[i])}
    IN  removeFromAllBuffers(s1, toRemove)

(***************************************************************************)
(* The boundary condition in the run: initialize and finalize are called   *)
(* by the solver in every step; between two steps particles may be removed *)
(* from the storage (HardSphereSolver::collide applies its removal list).  *)
(***************************************************************************)
CollideIdle ==
    /\ r = <<>> /\ v = <<>> /\ h = <<>> /\ rBuild = <<>> /\ rank = <<>>
    /\ overlapsAll = FALSE /\ searchRadii = <<>> /\ threadColl = <<>> /\ swept = {}
    /\ collisions = <<>> /\ removed = {} /\ cs = NoStats /\ stats = NoStats
    /\ pc = "idle" /\ handled = <<>> /\ skips = 0 /\ depStores = <<>>
    /\ written = <<>>

InitBoundary ==
    /\ bc \in BcKinds
    /\ \E n \in 1..MaxBcParticles :
         \E rr \in [1..n -> ZSet], vv \in [1..n -> {-1, 1}], ff \in [1..n -> BodyFlags] :
            st = [b \in Buffers |->
                    CASE b = "r" -> rr
                      [] b = "v" -> vv
                      [] b = "dv" -> [k \in 1..n |-> 1]
                      [] b = "flag" -> ff
                      [] OTHER -> [k \in 1..n |-> k]]
    /\ userData = NoData
    /\ ghosts = <<>>
    /\ ghostIdxs = <<>>
    /\ particleCnt = 0
    /\ phase = "idle"
    /\ hist = [NoHist EXCEPT !.lastCall = [f \in BodyFlags |-> "none"]]
    /\ frozen = {}
    /\ \E n \in 0..MaxDependents :
         /\ n > 0 => bc = "kill"
         /\ dependent = [d \in 1..n |-> [k \in 1..getParticleCnt(st) |-> k]]
    /\ CollideIdle
    /\ AuxIdle

\* the handler's members and the storage after <BC>::initialize; oob as in
\* PeriodicBoundary_initialize
AfterInitialize(oob) ==
    CASE bc = "ghost" -> GhostParticles_initialize(st)
      [] bc = "periodic" -> PeriodicBoundary_initialize(st, ghosts, oob)
      [] bc = "symmetric" -> SymmetricBoundary_initialize(st, ghosts)
      [] bc = "fixed" ->
            [st |-> FixedParticles_initialize(st), ghosts |-> ghosts, ghostIdxs |-> ghostIdxs]
      [] bc = "kill" ->
            [st |-> remove(st, KillEscapersBoundary_toRemove(st.r)),
             ghosts |-> ghosts, ghostIdxs |-> ghostIdxs]
      [] OTHER -> [st |-> st, ghosts |-> ghosts, ghostIdxs |-> ghostIdxs]

\* <BC>::initialize(storage), assertions off; a call that follows another
\* initialize without a finalize finds the members of the first call
Initialize ==
    /\ phase \in {"idle", "initialized", "finalized", "removed"}
    /\ hist.inits < MaxInits
    \* the run is followed while the storage has not grown by left-over ghosts
    /\ phase = "initialized" \/ getParticleCnt(st) <= MaxBcParticles
    /\ \E oob \in {{}} \cup {{k} : k \in 1..(getParticleCnt(st) + 2)} :
         /\ oob # {} => (bc = "periodic" /\ ghosts # <<>>
                                        /\ PeriodicGhosts(st.r, 1) # <<>>)
         /\ LET res == AfterInitialize(oob)
            IN  /\ st' = res.st
                /\ ghosts' = res.ghosts
                /\ ghostIdxs' = res.ghostIdxs
                /\ particleCnt' = IF bc = "ghost" THEN getParticleCnt(res.st)
                                  ELSE particleCnt
                /\ hist' = [hist EXCEPT
                              !.idsBefore = st.id,
                              !.inits = @ + 1,
                              !.stFirst = IF hist.inits = 0 THEN st ELSE @,
                              !.depFirst = IF hist.inits = 0 THEN dependent ELSE @,
                              !.cntFirst = IF hist.inits = 0 THEN getParticleCnt(st) ELSE @,
                              !.single = IF hist.inits = 0 THEN Len(res.ghostIdxs) ELSE @]
    /\ userData' = IF bc \in GhostKinds THEN NoData ELSE userData
    /\ dependent' = IF bc = "kill"
                    THEN propagateRemove(dependent, KillEscapersBoundary_toRemove(st.r))
                    ELSE dependent
    /\ phase' = "initialized"
    /\ UNCHANGED <<bc, frozen>>
    /\ UNCHANGED <<collideVars, auxVars>>

\* SPH_ASSERT(ghosts.empty() && ghostIdxs.empty()) with assertions on
InitializeAssert ==
    /\ phase \in {"idle", "initialized", "finalized", "removed"}
    /\ hist.inits < MaxInits
    /\ bc \in GhostKinds
    /\ ~(ghosts = <<>> /\ ghostIdxs = <<>>)
    /\ userData' = NoData
    /\ phase' = "failed"
    /\ UNCHANGED <<st, bc, ghosts, ghostIdxs, particleCnt, hist, dependent, frozen>>
    /\ UNCHANGED <<collideVars, auxVars>>

\* <BC>::finalize(storage)
Finalize ==
    /\ phase = "initialized"
    /\ IF bc \in GhostKinds
       THEN LET fin == finalize(st, ghostIdxs, ghosts)
            IN  /\ bc = "ghost" => getParticleCnt(st) = particleCnt
                /\ st' = fin.st
                /\ ghostIdxs' = fin.ghostIdxs
                /\ ghosts' = fin.ghosts
                /\ userData' = fin.userData
       ELSE /\ st' = CASE bc = "fixed" -> FixedParticles_finalize(st)
                       [] bc = "windtunnel" -> WindTunnel_finalize(st, frozen)
                       [] bc = "frozen" -> FrozenParticles_finalize(st, TRUE, frozen)
                       [] bc = "frozenbody" -> FrozenParticles_finalize(st, FALSE, frozen)
                       [] OTHER -> st
            /\ UNCHANGED <<ghostIdxs, ghosts, userData>>
    /\ hist' = [hist EXCEPT !.inits = 0]
    /\ phase' = "finalized"
    /\ UNCHANGED <<bc, particleCnt, dependent, frozen>>
    /\ UNCHANGED <<collideVars, auxVars>>

\* storage.remove(removed, Storage::IndicesFlag::INDICES_SORTED) between two
\* steps, followed by storage.propagate of the same removal; the storage
\* hands the indices to its user data
StorageRemove(idxs) ==
    /\ phase \in {"idle", "finalized", "removed"}
    /\ idxs # {}
    /\ getParticleCnt(st) <= MaxBcParticles
    /\ idxs \subseteq 1..getParticleCnt(st)
    /\ st' = remove(st, SortedSeq(idxs))
    /\ userData' = IF userData.has
                   THEN GhostParticlesData(
                            GhostParticlesData_remove(userData.ghosts, SortedSeq(idxs), 1))
                   ELSE userData
    /\ hist' = [hist EXCEPT !.removedIdxs = idxs, !.udBefore = userData.ghosts]
    /\ dependent' = propagateRemove(dependent, SortedSeq(idxs))
    /\ phase' = "removed"
    /\ UNCHANGED <<bc, ghosts, ghostIdxs, particleCnt, frozen>>
    /\ UNCHANGED <<collideVars, auxVars>>

\* freeze(flag) and thaw(flag), called by the user between any two calls of
\* the solver; a call after finalize opens the next step
Freeze(flag) ==
    /\ bc \in FrozenKinds
    /\ phase # "failed"
    /\ frozen' = freeze(frozen, flag)
    /\ hist' = [hist EXCEPT !.lastCall[flag] = "freeze"]
    /\ phase' = IF phase = "finalized" THEN "idle" ELSE phase
    /\ UNCHANGED <<st, userData, bc, ghosts, ghostIdxs, particleCnt, dependent>>
    /\ UNCHANGED <<collideVars, auxVars>>

Thaw(flag) ==
    /\ bc \in FrozenKinds
    /\ phase # "failed"
    /\ frozen' = thaw(frozen, flag)
    /\ hist' = [hist EXCEPT !.lastCall[flag] = "thaw"]
    /\ phase' = IF phase = "finalized" THEN "idle" ELSE phase
    /\ UNCHANGED <<st, userData, bc, ghosts, ghostIdxs, particleCnt, dependent>>
    /\ UNCHANGED <<collideVars, auxVars>>

NextBoundary ==
    \/ Initialize
    \/ InitializeAssert
    \/ Finalize
    \/ \E flag \in BodyFlags : Freeze(flag) \/ Thaw(flag)
    \/ \E idxs \in SUBSET (1..MaxBcParticles) : StorageRemove(idxs)

SpecBoundary == InitBoundary /\ [][NextBoundary]_vars

(***************************************************************************)
(* Properties of the collision resolver                                    *)
(***************************************************************************)
QueuedRecords == Range(collisions) \cup UNION {Range(threadColl[t]) : t \in DOMAIN threadColl}

\* the queue the processing loop starts from, once the first pass is over
SweepDone == pc = "sweep" /\ swept = Particles /\ Len(r) > 0

SweptQueue == Concat(threadColl, 1)

\* what a sweep over all pairs finds for the pair i, j at the start of the step
BruteEvent(i, j) ==
    IF overlapExceeds(DistAt(r, v, i, j, 0), h[i] + h[j])
    THEN IF overlapsAll THEN 0 ELSE NOTHING
    ELSE checkCollision(r[i], v[i], h[i], r[j], v[j], h[j], Dt)

BruteEvents == {p \in Particles \X Particles : p[1] # p[2] /\ BruteEvent(p[1], p[2]) # NOTHING}

FirstIsEarliest ==
    IF BruteEvents = {} THEN SweptQueue = <<>>
    ELSE /\ SweptQueue # <<>>
         /\ LET c == SweptQueue[FirstIdx(SweptQueue)]
            IN  /\ c.collisionTime = BruteEvent(c.i, c.j)
                /\ \A p \in BruteEvents : c.collisionTime <= BruteEvent(p[1], p[2])

\* C1: in each step the first event the resolver processes is the earliest
\* event a brute-force sweep over all pairs of particles finds in [0, Dt]
C1_FirstIsBruteForceEarliest == SweepDone => FirstIsEarliest

\* the same, for the steps whose first pass starts from an empty removal set
C1_EarliestWhenNothingStale == (SweepDone /\ removed = {}) => FirstIsEarliest

C1_StaleStepReached == SweepDone /\ removed # {} /\ BruteEvents # {}

Approaching(c) == (v[c.i] - v[c.j]) * (r[c.i] - r[c.j]) < 0

ContactAt(c) == DistAt(r, v, c.i, c.j, c.collisionTime) = h[c.i] + h[c.j]

\* C2: every record of the queue that is no overlap belongs to an approaching
\* pair whose spheres touch at the recorded time, and that time lies in
\* [0, Dt]; the same held for every such record when it was processed
C2_AdmittedOnlyApproachingInStep ==
    /\ \A c \in QueuedRecords :
          ~isOverlap(c) =>
              /\ Approaching(c)
              /\ ContactAt(c)
              /\ 0 <= c.collisionTime /\ c.collisionTime <= Dt
    /\ \A e \in Range(handled) :
          ~isOverlap(e.rec) =>
              /\ e.approach
              /\ 0 <= e.rec.collisionTime /\ e.rec.collisionTime <= Dt

\* a record found by the re-scan waits in the queue after an event at the end
\* of the step has been admitted
C2_Witness ==
    /\ \E e \in Range(handled) : ~isOverlap(e.rec) /\ e.result = "BOUNCE"
    /\ \E c \in Range(collisions) : ~isOverlap(c) /\ c.collisionTime = Dt

\* C3: an overlap record exists only for a pair whose overlap R - d exceeds
\* the allowed ratio of R = h1 + h2, and after the first pass every pair the
\* handler accepts with such an overlap has its record
C3_OverlapRoutedByRatio ==
    /\ \A c \in QueuedRecords \cup {e.rec : e \in Range(handled)} :
          isOverlap(c) => overlapExceedsLinear(c.ovd, c.ovR)
    /\ (SweepDone /\ overlapsAll) =>
          \A i, j \in Particles :
              (i < j /\ overlapExceedsLinear(DistAt(r, v, i, j, 0), h[i] + h[j])) =>
                  \E c \in Range(SweptQueue) : isOverlap(c) /\ SamePair(c, i, j)

\* the records of the code's own measure, 1 - d^2/R^2 against sqr(ratio)
C3_OverlapRecordsExceedSquared ==
    \A c \in QueuedRecords \cup {e.rec : e \in Range(handled)} :
        isOverlap(c) => overlapExceeds(c.ovd, c.ovR)

\* C4: the resolver never fails an assertion on an event it has admitted
C4_NeverRaises == pc # "failed"

CountOf(P(_)) == Cardinality({k \in DOMAIN handled : P(handled[k])})

IsCollision(e) == ~isOverlap(e.rec)
IsBounce(e) == ~isOverlap(e.rec) /\ e.result = "BOUNCE"
IsMerger(e) == ~isOverlap(e.rec) /\ e.result = "MERGER"
IsOverlapEvent(e) == isOverlap(e.rec)

\* C5: at the end of a step the exported counters are the numbers of handled
\* records of each kind: all collisions, the bounces and the mergers among
\* them, and the overlaps, which count as no collision
C5_CountersMatchHandled ==
    pc = "done" =>
        /\ stats.collisionCount = CountOf(IsCollision)
        /\ stats.bounceCount = CountOf(IsBounce)
        /\ stats.mergerCount = CountOf(IsMerger)
        /\ stats.overlapCount = CountOf(IsOverlapEvent)
        /\ stats.bounceCount + stats.mergerCount <= stats.collisionCount

C5_Witness ==
    /\ pc = "done"
    /\ \E e \in Range(handled) : isOverlap(e.rec)
    /\ \E e \in Range(handled) : ~isOverlap(e.rec) /\ e.result = "NONE"

(***************************************************************************)
(* Properties of the boundary conditions                                   *)
(***************************************************************************)
\* how often g occurs in the list gs
Occurrences(gs, g) == Cardinality({k \in DOMAIN gs : gs[k] = g})

\* C6: whatever a handler or a removal has done to the particle count, every
\* buffer of the storage, values and derivatives alike, has the same length
C6_BuffersHaveEqualLength == isValid(st)

\* the wind tunnel has removed some of the particles from the buffers
C6_Witness ==
    /\ bc = "windtunnel" /\ phase = "finalized"
    /\ getParticleCnt(st) < Len(hist.idsBefore) /\ getParticleCnt(st) > 0

SecondInitializeDone == bc \in GhostKinds /\ phase = "initialized" /\ hist.inits >= 2

\* C7: after a second initialize with no finalize in between the handler has
\* as many ghosts as after the first, in its list and in the storage
C7_SecondInitializeKeepsGhostCount ==
    SecondInitializeDone =>
        /\ Len(ghosts) = hist.single
        /\ getParticleCnt(st) = hist.cntFirst + hist.single

C7_GhostsOfFirstCallRemain ==
    SecondInitializeDone /\ hist.single > 0 /\ getParticleCnt(st) > hist.cntFirst + hist.single

\* C8: finalize of a handler with ghosts leaves the particles the storage held
\* before the preceding initialize, in number and identity, and an empty list
\* of ghost indices
C8_FinalizeRemovesGhosts ==
    (bc \in GhostKinds /\ phase = "finalized") =>
        /\ getParticleCnt(st) = Len(hist.idsBefore)
        /\ st.id = hist.idsBefore
        /\ ghostIdxs = <<>>

C8_Witness ==
    /\ bc \in GhostKinds /\ phase = "finalized"
    /\ Len(userData.ghosts) >= 2
    /\ \E k \in DOMAIN st.id : st.id[k] # 0

\* C9: after particles idxs were removed from a storage with the ghost list
\* as user data, the list holds no ghost of a removed particle and every
\* other ghost it held before, as often as before
C9_GhostListFollowsRemoval ==
    (phase = "removed" /\ userData.has) =>
        /\ \A g \in Range(userData.ghosts) : g.index \notin hist.removedIdxs
        /\ \A g \in Range(hist.udBefore) :
              g.index \notin hist.removedIdxs =>
                  Occurrences(userData.ghosts, g) = Occurrences(hist.udBefore, g)

C9_Witness ==
    /\ phase = "removed" /\ userData.has
    /\ \E g \in Range(hist.udBefore) : g.index \in hist.removedIdxs
    /\ \E g \in Range(hist.udBefore) : g.index \notin hist.removedIdxs

\* C10: while FixedParticles is initialized all its dummy particles stand
\* behind the particles the storage held, and after finalize the storage is,
\* buffer by buffer, the storage that initialize found: the dummy particles
\* are gone and no other particle is
C10_FixedParticlesRestored ==
    /\ (bc = "fixed" /\ phase = "initialized" /\ hist.inits = 1) =>
          /\ getParticleCnt(st) = hist.cntFirst + Len(FixedZ)
          /\ \A k \in 1..Len(FixedZ) : st.r[hist.cntFirst + k] = FixedZ[k]
          /\ \A k \in 1..hist.cntFirst : st.id[k] = hist.stFirst.id[k]
    /\ (bc = "fixed" /\ phase = "finalized") => st = hist.stFirst

C10_Witness ==
    /\ bc = "fixed" /\ phase = "finalized"
    /\ getParticleCnt(st) = MaxBcParticles

\* the first initialize of a step has run for the handler of this kind
FirstInitializeDone(kind) == bc = kind /\ phase = "initialized" /\ hist.inits = 1

\* the entries of the handler's ghost list made for particle k
GhostsOf(k) == {g \in DOMAIN ghosts : ghosts[g].index = k}

\* particle k has a ghost at position z, in the list and in the storage
HasGhostAt(k, z) ==
    \E g \in GhostsOf(k) :
        /\ ghosts[g].position = z
        /\ g \in DOMAIN ghostIdxs
        /\ st.r[ghostIdxs[g]] = z

NearLower(z) == z < BoxLo + GhostRadius * HUnit
NearUpper(z) == z > BoxHi - GhostRadius * HUnit

\* the parts of C11 that do not depend on how far outside a particle was
PeriodicMovesAndGhosts(k) ==
    LET z0 == hist.stFirst.r[k]
        z == st.r[k]
    IN  /\ BoxContains(z0) => z = z0
        /\ z0 < BoxLo => z = z0 + BoxSize
        /\ z0 > BoxHi => z = z0 - BoxSize
        /\ NearLower(z) <=> HasGhostAt(k, z + BoxSize)
        /\ NearUpper(z) <=> HasGhostAt(k, z - BoxSize)
        /\ Cardinality(GhostsOf(k)) =
              (IF NearLower(z) THEN 1 ELSE 0) + (IF NearUpper(z) THEN 1 ELSE 0)

SymmetricLiftsAndMirrors(k, n) ==
    LET z0 == hist.stFirst.r[k]
        z == st.r[k]
    IN  /\ z0 < 0 => z = HUnit \div 10
        /\ ~(z0 < 0) => z = z0
        /\ Cardinality(GhostsOf(k)) = (IF z < GhostRadius * HUnit THEN n ELSE 0)
        /\ \A g \in GhostsOf(k) :
              ghosts[g].position = -z /\ st.r[ghostIdxs[g]] = -z

\* C12: after SymmetricBoundary initialize every particle that had z < 0 is at
\* z = 0.1 h, every particle within 2h of the plane has one ghost, at the
\* mirrored position -z, and a particle farther away has none
C12_SymmetricOneGhostPerNearParticle ==
    FirstInitializeDone("symmetric") =>
        \A k \in 1..hist.cntFirst : SymmetricLiftsAndMirrors(k, 1)

\* what the loop over j < 3 makes of it: three ghosts at the same place
C12_SymmetricThreeGhostsPerNearParticle ==
    FirstInitializeDone("symmetric") =>
        \A k \in 1..hist.cntFirst : SymmetricLiftsAndMirrors(k, 3)

C12_NearParticleInitialized ==
    /\ FirstInitializeDone("symmetric")
    /\ \E k \in 1..hist.cntFirst : hist.stFirst.r[k] < 0 /\ GhostsOf(k) # {}

\* the particles of the store before the first initialize that the box holds
InsideBefore == {k \in 1..hist.cntFirst : BoxContains(hist.stFirst.r[k])}

\* C13: after KillEscapersBoundary initialize the store holds exactly the
\* particles that were inside the domain, in their order and with all their
\* buffers, and every dependent store has lost the same rows
C13_KillEscapersKeepsInside ==
    FirstInitializeDone("kill") =>
        /\ \A b \in Buffers :
              st[b] = RemoveIdxs(hist.stFirst[b], (1..hist.cntFirst) \ InsideBefore)
        /\ \A k \in DOMAIN st.r : BoxContains(st.r[k])
        /\ Range(st.id) = {hist.stFirst.id[k] : k \in InsideBefore}
        /\ Len(dependent) = Len(hist.depFirst)
        /\ \A d \in DOMAIN dependent :
              dependent[d] =
                  RemoveIdxs(hist.depFirst[d], (1..hist.cntFirst) \ InsideBefore)

C13_Witness ==
    /\ FirstInitializeDone("kill")
    /\ InsideBefore # {}
    /\ InsideBefore # 1..hist.cntFirst
    /\ ~BoxContains(hist.stFirst.r[hist.cntFirst])
    /\ Len(dependent) = MaxDependents
    /\ \A d \in DOMAIN dependent : Len(dependent[d]) = getParticleCnt(st)

\* FrozenParticles::finalize was the last call of the step
FrozenFinalized == bc \in {"frozen", "frozenbody"} /\ phase = "finalized"

\* freeze(flag) was called and thaw(flag) has not been called since
CurrentlyFrozen(flag) == hist.lastCall[flag] = "freeze"

\* particle k lies within the freeze radius of the boundary of the domain
WithinFreezeRadius(k) == bc = "frozen" /\ st.r[k] < FreezeRadius * HUnit

\* C14: after FrozenParticles finalize every particle within the freeze radius
\* of the boundary or of a currently frozen body has its highest derivative
\* equal to zero, the highest derivatives of all other particles and all
\* lower derivatives are what they were before the step
C14_FrozenDerivativesZeroed ==
    FrozenFinalized =>
        /\ getParticleCnt(st) = hist.cntFirst
        /\ st.v = hist.stFirst.v
        /\ \A k \in DOMAIN st.dv :
              IF WithinFreezeRadius(k) \/ CurrentlyFrozen(st.flag[k])
              THEN st.dv[k] = 0
              ELSE st.dv[k] = hist.stFirst.dv[k]

C14_Witness ==
    /\ FrozenFinalized
    /\ bc = "frozen"
    /\ \E f \in BodyFlags : hist.lastCall[f] = "thaw"
    /\ \E k \in DOMAIN st.dv :
          ~WithinFreezeRadius(k) /\ CurrentlyFrozen(st.flag[k]) /\ st.dv[k] = 0
    /\ \E k \in DOMAIN st.dv : st.dv[k] # 0

(***************************************************************************)
(* LinkedList finder (lib/objects/finders/LinkedList.h).  Particles are    *)
(* numbered from 0 as in the code, because the cell map uses 0 for the     *)
(* empty cell.  The particles lie on the x axis (y = z = 0) at integer     *)
(* positions and have one smoothing length; the query is made without      *)
(* flags.  The finder keeps a view of the caller's array: values is that   *)
(* array, built what it held at the last build.                            *)
(***************************************************************************)
finderRest ==
    <<collideVars, boundaryVars, gravSolver, stepper, pool, cached, list,
      bvh>>

Axes == 1..3

\* Math::root<3>(n), truncated by the assignment to Size
RECURSIVE root3(_, _)
root3(n, k) == IF (k + 1) * (k + 1) * (k + 1) > n THEN k ELSE root3(n, k + 1)

\* buildImpl: cellCnt
cellCntOf(n) == root3(n, 0) + 1

\* Indices(Vector(rank[idx]) * cellCntSqrInv), one component
multiIdxOf(rk, cellCnt) == rk \div (cellCnt * cellCnt)

\* the point of particle idx in space
PointOf(vals, idx) == <<vals[idx], 0, 0>>

\* sortedIndices.shuffle(i, ...) and getInverted, followed by multiIdxOf: the
\* cells along one axis that a sort of the coordinates c can give; the order
\* of equal coordinates is the sort's choice
AxisCells(n, c) ==
    LET cc == cellCntOf(n)
    IN  {f \in [0..(n - 1) -> 0..multiIdxOf(n - 1, cc)] :
            /\ \A i, j \in 0..(n - 1) : c[i] < c[j] => f[i] <= f[j]
            /\ \A cell \in 0..multiIdxOf(n - 1, cc) :
                  Cardinality({i \in 0..(n - 1) : f[i] = cell}) =
                  Cardinality({rk \in 0..(n - 1) : multiIdxOf(rk, cc) = cell})}

\* the multi-indices rebuildImpl can compute for the particles
CellChoices(vals) ==
    LET n == Cardinality(DOMAIN vals)
    IN  {[idx \in 0..(n - 1) |-> <<fx[idx], fy[idx], fz[idx]>>] :
            fx \in AxisCells(n, vals),
            fy \in AxisCells(n, [i \in 0..(n - 1) |-> 0]),
            fz \in AxisCells(n, [i \in 0..(n - 1) |-> 0])}

\* LookupMap(cellCnt): all cells cleared with 0
EmptyMap(cellCnt) ==
    [c \in (0..(cellCnt - 1)) \X (0..(cellCnt - 1)) \X (0..(cellCnt - 1)) |-> 0]

\* rebuildImpl, the loop over idx: linkedList[idx] = cell; cell = idx
RECURSIVE linkCells(_, _, _, _)
linkCells(cells, idx, map, linkedList) ==
    IF idx \notin DOMAIN cells THEN [map |-> map, linkedList |-> linkedList]
    ELSE linkCells(cells, idx + 1,
                   [map EXCEPT ![cells[idx]] = idx],
                   [linkedList EXCEPT ![idx] = map[cells[idx]]])

\* rebuildImpl: lowerBounds[c][i] and upperBounds[c][i]
lowerBoundsOf(vals, cells, c, i) ==
    LET S == {PointOf(vals, idx)[i] : idx \in {k \in DOMAIN vals : cells[k][i] = c}}
    IN  IF S = {} THEN INFTY ELSE CHOOSE x \in S : \A y \in S : x <= y

upperBoundsOf(vals, cells, c, i) ==
    LET S == {PointOf(vals, idx)[i] : idx \in {k \in DOMAIN vals : cells[k][i] = c}}
    IN  IF S = {} THEN -INFTY ELSE CHOOSE x \in S : \A y \in S : x >= y

\* buildImpl and rebuildImpl for the array vals with the multi-indices cells
rebuildImpl(vals, cells) ==
    LET n == Cardinality(DOMAIN vals)
        cc == cellCntOf(n)
        linked == linkCells(cells, 0, EmptyMap(cc), [idx \in 0..(n - 1) |-> 0])
    IN  [cellCnt |-> cc,
         cells |-> cells,
         map |-> linked.map,
         linkedList |-> linked.linkedList,
         lowerBounds |-> [c \in 0..(cc - 1) |->
                             [i \in Axes |-> lowerBoundsOf(vals, cells, c, i)]],
         upperBounds |-> [c \in 0..(cc - 1) |->
                             [i \in Axes |-> upperBoundsOf(vals, cells, c, i)]]]

\* findNeighbours: while (lower[i] > 0 && bounds.lower()[i] <= lowerBounds[lower[i]][i])
RECURSIVE lowerCell(_, _, _, _)
lowerCell(f, lo, i, boundsLower) ==
    IF lo > 0 /\ boundsLower <= f.lowerBounds[lo][i]
    THEN lowerCell(f, lo - 1, i, boundsLower) ELSE lo

\* findNeighbours: while (upper[i] < upperBounds.size() - 1 &&
\*                        bounds.upper()[i] <= upperBounds[upper[i]][i])
RECURSIVE upperCell(_, _, _, _)
upperCell(f, up, i, boundsUpper) ==
    IF up < f.cellCnt - 1 /\ boundsUpper <= f.upperBounds[up][i]
    THEN upperCell(f, up + 1, i, boundsUpper) ELSE up

getSqrLength(p, q) ==
    sqr(p[1] - q[1]) + sqr(p[2] - q[2]) + sqr(p[3] - q[3])

\* findNeighbours: while (cell != 0) { ...; cell = linkedList[cell]; }
RECURSIVE walkCell(_, _, _, _, _)
walkCell(f, vals, cell, index, radius) ==
    IF cell = 0 THEN <<>>
    ELSE LET lengthSqr == getSqrLength(PointOf(vals, cell), PointOf(vals, index))
         IN  (IF lengthSqr < sqr(radius)
              THEN <<[index |-> cell, distanceSqr |-> lengthSqr]>> ELSE <<>>)
             \o walkCell(f, vals, f.linkedList[cell], index, radius)

\* the cells x, y, z of the three nested loops, in the order of the loops
RECURSIVE cellsBetween(_, _, _, _, _)
cellsBetween(lo, up, x, y, z) ==
    IF x > up[1] THEN <<>>
    ELSE IF y > up[2] THEN cellsBetween(lo, up, x + 1, lo[2], lo[3])
    ELSE IF z > up[3] THEN cellsBetween(lo, up, x, y + 1, lo[3])
    ELSE <<(<<x, y, z>>)>> \o cellsBetween(lo, up, x, y, z + 1)

RECURSIVE walkCells(_, _, _, _, _, _)
walkCells(f, vals, cs3, k, index, radius) ==
    IF k > Len(cs3) THEN <<>>
    ELSE walkCell(f, vals, f.map[cs3[k]], index, radius)
         \o walkCells(f, vals, cs3, k + 1, index, radius)

\* LinkedList::findNeighbours(index, radius, neighbours) without flags: the
\* content of neighbours on return
findNeighbours(f, vals, index, radius) ==
    LET p == PointOf(vals, index)
        lower == [i \in Axes |-> lowerCell(f, f.cells[index][i], i, p[i] - radius)]
        upper == [i \in Axes |-> upperCell(f, f.cells[index][i], i, p[i] + radius)]
        lo == [i \in Axes |-> Max(lower[i], 0)]
        up == [i \in Axes |-> Min(upper[i], f.cellCnt - 1)]
    IN  walkCells(f, vals, cellsBetween(lo, up, lo[1], lo[2], lo[3]), 1, index, radius)

FinderPositions == 0..MaxFinderPos
FinderRadii == 1..MaxFinderRadius

InitFinder ==
    /\ finder = [stage |-> "constructed", values |-> <<>>, built |-> <<>>,
                 impl |-> <<>>, moved |-> FALSE,
                 index |-> 0, radius |-> 0, neighbours |-> <<>>]
    /\ CollideIdle
    /\ BoundaryIdle
    /\ GravSolverIdle /\ StepperIdle /\ PoolIdle /\ CachedIdle /\ ListIdle /\ BvhIdle

\* Abstract::Finder::build(values)
FinderBuild ==
    /\ \E n \in 1..MaxFinderParticles :
         \E vals \in [0..(n - 1) -> FinderPositions] :
            \E cells \in CellChoices(vals) :
               finder' = [finder EXCEPT !.stage = "built",
                                        !.values = vals,
                                        !.built = vals,
                                        !.moved = FALSE,
                                        !.impl = rebuildImpl(vals, cells)]
    /\ UNCHANGED finderRest

\* the caller changes a position in its array and does not build again
FinderMove ==
    /\ finder.stage # "constructed"
    /\ ~finder.moved
    /\ \E idx \in DOMAIN finder.values, x \in FinderPositions :
         /\ x # finder.values[idx]
         /\ finder' = [finder EXCEPT !.values[idx] = x, !.moved = TRUE]
    /\ UNCHANGED finderRest

\* findNeighbours(index, radius, neighbours); neighbours holds the result of
\* the query before
FinderQuery ==
    /\ finder.stage # "constructed"
    /\ \E index \in DOMAIN finder.values, radius \in FinderRadii :
         finder' = [finder EXCEPT
                       !.stage = "queried",
                       !.index = index,
                       !.radius = radius,
                       !.neighbours =
                           findNeighbours(finder.impl, finder.values, index, radius)]
    /\ UNCHANGED finderRest

NextFinder ==
    \/ FinderBuild
    \/ FinderMove
    \/ FinderQuery

SpecFinder == InitFinder /\ [][NextFinder]_vars

\* the particles of the last build no farther than radius from particle index
WithinRadius(vals, index, radius) ==
    {j \in DOMAIN vals :
        getSqrLength(PointOf(vals, j), PointOf(vals, index)) <= sqr(radius)}

FoundIndices == {finder.neighbours[k].index : k \in DOMAIN finder.neighbours}

\* C15: a query returns a record {index, distance^2} for every particle j in
\* [0, N) with |r_j - r_i| <= r and for no other particle, measured on the
\* positions given to the last build
C15_QueryFindsAllWithinRadius ==
    finder.stage = "queried" =>
        /\ FoundIndices = WithinRadius(finder.built, finder.index, finder.radius)
        /\ \A k \in DOMAIN finder.neighbours :
              finder.neighbours[k].distanceSqr =
                  getSqrLength(PointOf(finder.built, finder.neighbours[k].index),
                               PointOf(finder.built, finder.index))

\* what the queries do return while the caller's array is as it was built:
\* the particles other than particle 0 that are nearer than radius
C15_QueryFindsNearerExceptFirst ==
    (finder.stage = "queried" /\ ~finder.moved) =>
        FoundIndices =
            {j \in DOMAIN finder.built :
                /\ j # 0
                /\ getSqrLength(PointOf(finder.built, j),
                                PointOf(finder.built, finder.index)) < sqr(finder.radius)}

C15_QueryMade ==
    /\ finder.stage = "queried"
    /\ ~finder.moved
    /\ finder.index # 0
    /\ 0 \in WithinRadius(finder.built, finder.index, finder.radius)
    /\ 0 \notin FoundIndices

(***************************************************************************)
(* GravitySolver<TSphSolver> (core/sph/solvers/GravitySolver.cpp): an SPH  *)
(* solver with an IGravity object added.  The SPH solver calls the virtual *)
(* sanityCheck at the end of create(storage, material), during the set-up  *)
(* of the run.                                                             *)
(***************************************************************************)
gravSolverRest ==
    <<collideVars, boundaryVars, finder, stepper, pool, cached, list,
      bvh>>

\* the instantiations at the end of GravitySolver.cpp
SphSolvers == {"SymmetricSolver", "AsymmetricSolver", "EnergyConservingSolver"}

EquationTerms ==
    {"PressureForce", "SolidStressForce", "ContinuityEquation", "ExternalForce",
     "SphericalGravityEquation"}

\* what IGravity object Factory::getGravity(settings) gives
GravityKinds == {"BarnesHut", "BruteForceGravity", "CachedGravity"}

\* variant that runs the check of the SPH solver only
sanityCheckOfBase(equations, baseOk) == IF baseOk THEN "ok" ELSE "InvalidSetup"

\* GravitySolver::sanityCheck; baseOk tells whether TSphSolver::sanityCheck
\* returns or throws
sanityCheck(equations, baseOk) ==
    IF ~baseOk THEN "InvalidSetup"
    ELSE IF "SphericalGravityEquation" \in equations THEN "InvalidSetup"
    ELSE "ok"

InitGravSolver ==
    /\ gravSolver = [stage |-> "none", base |-> "none", gravity |-> "none",
                     equations |-> {}, accumulated |-> {}, created |-> 0, loops |-> 0]
    /\ CollideIdle
    /\ BoundaryIdle
    /\ FinderIdle /\ StepperIdle /\ PoolIdle /\ CachedIdle /\ ListIdle /\ BvhIdle

\* GravitySolver(scheduler, settings, equations, bc, gravity)
GravSolverConstruct ==
    /\ gravSolver.stage = "none"
    /\ \E base \in SphSolvers, eqs \in SUBSET EquationTerms, g \in GravityKinds :
         gravSolver' = [gravSolver EXCEPT
                           !.stage = "constructed",
                           !.base = base,
                           !.gravity = g,
                           !.equations = eqs,
                           !.accumulated = {"POSITION.SECOND"}]
    /\ UNCHANGED gravSolverRest

\* create(storage, material) for one of the materials of the storage
GravSolverCreate ==
    /\ gravSolver.stage \in {"constructed", "created"}
    /\ gravSolver.created < MaxMaterials
    /\ \E baseOk \in BOOLEAN :
         gravSolver' = [gravSolver EXCEPT
                           !.stage = IF sanityCheck(gravSolver.equations, baseOk) = "ok"
                                     THEN "created" ELSE "InvalidSetup",
                           !.created = @ + 1]
    /\ UNCHANGED gravSolverRest

\* GravitySolver::loop in a step of the run
GravSolverLoop ==
    /\ gravSolver.stage = "created"
    /\ gravSolver.loops < MaxLoops
    /\ gravSolver' = [gravSolver EXCEPT !.loops = @ + 1]
    /\ UNCHANGED gravSolverRest

NextGravSolver ==
    \/ GravSolverConstruct
    \/ GravSolverCreate
    \/ GravSolverLoop

SpecGravSolver == InitGravSolver /\ [][NextGravSolver]_vars

\* C16: a gravity solver whose equations contain the spherical-gravity term
\* fails with InvalidSetup when it is set up, and never evaluates a step
C16_SecondGravityIsInvalidSetup ==
    ("SphericalGravityEquation" \in gravSolver.equations /\ gravSolver.created > 0)
        => (gravSolver.stage = "InvalidSetup" /\ gravSolver.loops = 0)

C16_Witness ==
    /\ gravSolver.gravity = "BarnesHut"
    /\ "SphericalGravityEquation" \in gravSolver.equations
    /\ gravSolver.created > 0
    /\ gravSolver.stage = "InvalidSetup"

(***************************************************************************)
(* Time stepping with clamping (lib/timestepping/test/TimeStepping.cpp,    *)
(* core/objects/geometry/TracelessTensor.h).  One particle carries one     *)
(* first-order quantity, a Float (the energy of testClamping) or a         *)
(* TracelessTensor, with a range declared by the material.  The time step  *)
(* is 1.  Numbers are integers in units of 1/StepScale, so that the halves *)
(* of the corrector and the thirds of the trace are exact.                 *)
(***************************************************************************)
stepperRest ==
    <<collideVars, boundaryVars, finder, gravSolver, pool, cached, list,
      bvh>>

RECURSIVE Pow3(_)
Pow3(k) == IF k = 0 THEN 1 ELSE 3 * Pow3(k - 1)

\* two clamps of a tensor in a step, each divides the trace by 3
StepScale == 2 * Pow3(2 * MaxSteps)

Integrators == {"EulerExplicit", "PredictorCorrector"}
ValueTypes == {"Float", "TracelessTensor"}

\* const Range range(3._f, 7._f) of testClamping; the range of the tensor
RangeOf(type) ==
    IF type = "Float" THEN [lower |-> 3 * StepScale, upper |-> 7 * StepScale]
    ELSE [lower |-> -StepScale, upper |-> StepScale]

\* Interval::clamp
clampFloat(x, range) == Max(range.lower, Min(x, range.upper))

\* Interval::contains
rangeContains(range, x) == range.lower <= x /\ x <= range.upper

\* less(a, b) of two numbers: 1 or 0
less(a, b) == IF a < b THEN 1 ELSE 0

\* clampWithDerivative of a Float
clampWithDerivativeFloat(x, dx, range) ==
    [v |-> clampFloat(x, range),
     dv |-> dx * less(range.lower, x) * less(x, range.upper)]

\* TracelessTensor: the components kept, and explicit operator SymmetricTensor
TensorIds == {"xx", "yy", "xy", "xz", "yz"}
SymIds == TensorIds \cup {"zz"}
toSymmetric(t) == [c \in SymIds |-> IF c = "zz" THEN -t.xx - t.yy ELSE t[c]]

\* explicit TracelessTensor(const SymmetricTensor&): the last diagonal element
\* is dropped
toTraceless(sym) == [c \in TensorIds |-> sym[c]]

trace(sym) == sym.xx + sym.yy + sym.zz
Diag == {"xx", "yy", "zz"}

\* variant that gives the tensor back as it is
clampTensorNot(t, range) == t

\* clamp(const TracelessTensor&, const Interval&): the components are clamped
\* and a third of the trace of the clamped tensor is taken from the diagonal
clampTensor(t, range) ==
    LET clamped == [c \in SymIds |-> clampFloat(toSymmetric(t)[c], range)]
    IN  toTraceless([c \in SymIds |->
                        IF c \in Diag THEN clamped[c] - trace(clamped) \div 3
                        ELSE clamped[c]])

\* clampWithDerivative(const TracelessTensor&, const TracelessTensor&, range)
clampWithDerivativeTensor(t, dt, range) ==
    LET sym == toSymmetric(t)
        lower == [c \in SymIds |-> less(range.lower, sym[c])]
        upper == [c \in SymIds |-> less(sym[c], range.upper)]
    IN  [v |-> clampTensor(t, range),
         dv |-> toTraceless([c \in SymIds |->
                                toSymmetric(dt)[c] * lower[c] * upper[c]])]

clampWithDerivative(type, x, dx, range) ==
    IF type = "Float" THEN clampWithDerivativeFloat(x, dx, range)
    ELSE clampWithDerivativeTensor(x, dx, range)

\* v + a * dv / b on a Float or on the components of a tensor
Advance(type, x, dx, a, b) ==
    IF type = "Float" THEN x + (a * dx) \div b
    ELSE [c \in TensorIds |-> x[c] + (a * dx[c]) \div b]

Minus(type, x, y) ==
    IF type = "Float" THEN x - y ELSE [c \in TensorIds |-> x[c] - y[c]]

ZeroOf(type) == IF type = "Float" THEN 0 ELSE [c \in TensorIds |-> 0]

\* the derivatives a solver can give: ClampSolver sets +1 or -1; for the
\* tensor a few traceless rates
Tensor5(xx, yy, xy) == [c \in TensorIds |->
                          CASE c = "xx" -> xx * StepScale
                            [] c = "yy" -> yy * StepScale
                            [] c = "xy" -> xy * StepScale
                            [] OTHER -> 0]

Derivatives(type) ==
    IF type = "Float" THEN {StepScale, -StepScale}
    ELSE {Tensor5(3, -1, 0), Tensor5(-1, -1, 1), Tensor5(1, 0, -2), Tensor5(0, 0, 0)}

StartValues(type) ==
    IF type = "Float" THEN {4 * StepScale, 5 * StepScale, 6 * StepScale}
    ELSE {Tensor5(0, 0, 0)}

\* EulerExplicit::step: the solver computes the derivative from the stored
\* value, the value is advanced and clamped
EulerStep(type, x, dx, solverDx, range) ==
    LET adv == Advance(type, x, solverDx, 1, 1)
        cl == clampWithDerivative(type, adv, solverDx, range)
    IN  [v |-> cl.v, dv |-> cl.dv, seen |-> x]

\* PredictorCorrector::step: prediction with the derivative of the last step
\* and clamp, the solver computes the derivative from the prediction, the
\* correction takes half the difference back and clamps
PredictorCorrectorStep(type, x, dx, solverDx, range) ==
    LET pred == clampWithDerivative(type, Advance(type, x, dx, 1, 1), dx, range)
        corr == Advance(type, pred.v, Minus(type, pred.dv, solverDx), -1, 2)
        cl == clampWithDerivative(type, corr, solverDx, range)
    IN  [v |-> cl.v, dv |-> cl.dv, seen |-> pred.v]

InitStepper ==
    /\ \E integrator \in Integrators, type \in ValueTypes :
         \E x \in StartValues(type) :
            stepper = [integrator |-> integrator, type |-> type, v |-> x,
                       dv |-> ZeroOf(type), seen |-> x, start |-> x,
                       given |-> {}, steps |-> 0]
    /\ CollideIdle
    /\ BoundaryIdle
    /\ FinderIdle /\ GravSolverIdle /\ PoolIdle /\ CachedIdle /\ ListIdle /\ BvhIdle

\* timestepping.step(solver, stats) with a solver that sets the derivative
TimeStep(integrator) ==
    /\ stepper.integrator = integrator
    /\ stepper.steps < MaxSteps
    /\ \E solverDx \in Derivatives(stepper.type) :
         LET range == RangeOf(stepper.type)
             res == IF integrator = "EulerExplicit"
                    THEN EulerStep(stepper.type, stepper.v, stepper.dv, solverDx, range)
                    ELSE PredictorCorrectorStep(stepper.type, stepper.v, stepper.dv,
                                                solverDx, range)
         IN  stepper' = [stepper EXCEPT !.v = res.v,
                                        !.dv = res.dv,
                                        !.seen = res.seen,
                                        !.given = @ \cup {solverDx},
                                        !.steps = @ + 1]
    /\ UNCHANGED stepperRest

NextStepper ==
    \/ TimeStep("EulerExplicit")
    \/ TimeStep("PredictorCorrector")

SpecStepper == InitStepper /\ [][NextStepper]_vars

\* the stored value and the value the solver saw in the last step lie within
\* the range, component by component
StoredWithinRange ==
    LET range == RangeOf(stepper.type)
    IN  IF stepper.type = "Float"
        THEN rangeContains(range, stepper.v) /\ rangeContains(range, stepper.seen)
        ELSE \A c \in SymIds :
                /\ rangeContains(range, toSymmetric(stepper.v)[c])
                /\ rangeContains(range, toSymmetric(stepper.seen)[c])

\* the derivative has pushed the Float outward in every step, for enough steps
\* to pass the bound
PushedUp ==
    /\ stepper.type = "Float"
    /\ stepper.given = {StepScale}
    /\ stepper.start + (stepper.steps - 1) * StepScale >= RangeOf("Float").upper

PushedDown ==
    /\ stepper.type = "Float"
    /\ stepper.given = {-StepScale}
    /\ stepper.start - (stepper.steps - 1) * StepScale <= RangeOf("Float").lower

EndsAtBound ==
    /\ PushedUp => stepper.v = RangeOf("Float").upper
    /\ PushedDown => stepper.v = RangeOf("Float").lower

\* a traceless tensor after the clamp: the components off the diagonal lie
\* within the range, those on the diagonal within the width of the range
\* around zero
TensorNearRange(t) ==
    LET range == RangeOf("TracelessTensor")
        width == range.upper - range.lower
    IN  /\ \A c \in SymIds \ Diag : rangeContains(range, toSymmetric(t)[c])
        /\ \A c \in Diag : -width <= toSymmetric(t)[c] /\ toSymmetric(t)[c] <= width
        /\ trace(toSymmetric(t)) = 0

C17_TensorLeavesRange ==
    /\ stepper.steps > 0
    /\ stepper.type = "TracelessTensor"
    /\ ~StoredWithinRange
    /\ TensorNearRange(stepper.v)

(***************************************************************************)
(* Schedulers (core/thread/Pool.h, core/thread/Scheduler.cpp).  The main   *)
(* thread submits one task and waits on its handle; the callable of a task *)
(* may submit further tasks, which become its children.  Tasks are         *)
(* numbered in the order of their creation, 0 stands for nullptr.          *)
(***************************************************************************)
poolRest ==
    <<collideVars, boundaryVars, finder, gravSolver, stepper, cached, list,
      bvh>>

Schedulers == {"ThreadPool", "SequentialScheduler"}
Workers == 1..MaxWorkers

\* variant whose count does not include the task itself
NewTaskUncounted(parent) ==
    [parent |-> parent, tasksLeft |-> 0, state |-> "queued", runs |-> 0]

\* Task::Task: tasksLeft{ 1 }, parent = nullptr; the parent is assigned by
\* setParent
NewTask(parent) ==
    [parent |-> parent, tasksLeft |-> 1, state |-> "queued", runs |-> 0]

\* Task::addReference
addReference(tasks, t) == [tasks EXCEPT ![t].tasksLeft = @ + 1]

\* Task::setParent(parent): if (parent) parent->addReference()
setParent(tasks, parent) == IF parent # 0 THEN addReference(tasks, parent) ELSE tasks

\* Task::removeReference: the count is decreased, at zero the parent loses a
\* reference too and the waiting threads are notified
RECURSIVE removeReference(_, _)
removeReference(tasks, t) ==
    LET dec == [tasks EXCEPT ![t].tasksLeft = @ - 1]
    IN  IF dec[t].tasksLeft = 0 /\ dec[t].parent # 0
        THEN removeReference(dec, dec[t].parent)
        ELSE dec

\* Task::completed, SequentialTaskHandle::completed
completed(sched, tasks, t) ==
    IF sched = "SequentialScheduler" THEN TRUE ELSE tasks[t].tasksLeft = 0

InitPool ==
    /\ \E sched \in Schedulers :
         pool = [sched |-> sched, tasks |-> <<>>, queue |-> <<>>,
                 running |-> [w \in Workers |-> 0], stack |-> <<>>,
                 waiter |-> "none"]
    /\ CollideIdle
    /\ BoundaryIdle
    /\ FinderIdle /\ GravSolverIdle /\ StepperIdle /\ CachedIdle /\ ListIdle /\ BvhIdle

\* ThreadPool::submit called by the main thread: Task::getCurrent() is nullptr
PoolSubmit ==
    /\ pool.sched = "ThreadPool"
    /\ pool.waiter = "none"
    /\ pool' = [pool EXCEPT
                   !.tasks = setParent(Append(pool.tasks, NewTask(0)), 0),
                   !.queue = Append(pool.queue, Len(pool.tasks) + 1),
                   !.waiter = "handle"]
    /\ UNCHANGED poolRest

\* a worker takes the next task of the queue and calls runAndNotify
PoolTake(w) ==
    /\ pool.sched = "ThreadPool"
    /\ pool.running[w] = 0
    /\ pool.queue # <<>>
    /\ LET t == Head(pool.queue)
       IN  pool' = [pool EXCEPT !.queue = Tail(pool.queue),
                                !.running[w] = t,
                                !.tasks[t].state = "running",
                                !.tasks[t].runs = @ + 1]
    /\ UNCHANGED poolRest

\* ThreadPool::submit called from the callable of the task the worker runs
PoolSpawn(w) ==
    /\ pool.sched = "ThreadPool"
    /\ pool.running[w] # 0
    /\ Len(pool.tasks) < MaxTasks
    /\ LET t == pool.running[w]
       IN  pool' = [pool EXCEPT
                       !.tasks = setParent(Append(pool.tasks, NewTask(t)), t),
                       !.queue = Append(pool.queue, Len(pool.tasks) + 1)]
    /\ UNCHANGED poolRest

\* the callable returns: Task::runAndNotify calls removeReference
PoolFinish(w) ==
    /\ pool.sched = "ThreadPool"
    /\ pool.running[w] # 0
    /\ LET t == pool.running[w]
       IN  pool' = [pool EXCEPT
                       !.tasks = removeReference(
                                     [pool.tasks EXCEPT ![t].state = "finished"], t),
                       !.running[w] = 0]
    /\ UNCHANGED poolRest

\* Task::wait called by the main thread on the handle of the first task
PoolWaitCall ==
    /\ pool.sched = "ThreadPool"
    /\ pool.waiter = "handle"
    /\ pool' = [pool EXCEPT !.waiter = "waiting"]
    /\ UNCHANGED poolRest

\* waitVar.wait(lock, [this] { return tasksLeft == 0; }) returns
PoolWaitReturn ==
    /\ pool.sched = "ThreadPool"
    /\ pool.waiter = "waiting"
    /\ pool.tasks[1].tasksLeft = 0
    /\ pool' = [pool EXCEPT !.waiter = "returned"]
    /\ UNCHANGED poolRest

\* SequentialScheduler::submit, the call task(): by the main thread or by the
\* callable that is executing
SeqSubmit ==
    /\ pool.sched = "SequentialScheduler"
    /\ Len(pool.tasks) < MaxTasks
    /\ pool.waiter = "none"
    /\ LET parent == IF pool.stack = <<>> THEN 0 ELSE pool.stack[Len(pool.stack)]
       IN  pool' = [pool EXCEPT
                       !.tasks = Append(pool.tasks,
                                        [parent |-> parent, tasksLeft |-> 0,
                                         state |-> "running", runs |-> 1]),
                       !.stack = Append(pool.stack, Len(pool.tasks) + 1)]
    /\ UNCHANGED poolRest

\* SequentialScheduler::submit, task() returns and the handle is made
SeqReturn ==
    /\ pool.sched = "SequentialScheduler"
    /\ pool.stack # <<>>
    /\ LET t == pool.stack[Len(pool.stack)]
       IN  pool' = [pool EXCEPT
                       !.tasks[t].state = "finished",
                       !.stack = SubSeq(pool.stack, 1, Len(pool.stack) - 1),
                       !.waiter = IF Len(pool.stack) = 1 THEN "handle" ELSE pool.waiter]
    /\ UNCHANGED poolRest

\* SequentialTaskHandle::wait
SeqWait ==
    /\ pool.sched = "SequentialScheduler"
    /\ pool.waiter = "handle"
    /\ pool' = [pool EXCEPT !.waiter = "returned"]
    /\ UNCHANGED poolRest

NextPool ==
    \/ PoolSubmit
    \/ \E w \in Workers : PoolTake(w)
    \/ \E w \in Workers : PoolSpawn(w)
    \/ \E w \in Workers : PoolFinish(w)
    \/ PoolWaitCall
    \/ PoolWaitReturn
    \/ SeqSubmit
    \/ SeqReturn
    \/ SeqWait

SpecPool == InitPool /\ [][NextPool]_vars

TaskIds == DOMAIN pool.tasks

\* the children of task t that are not completed
OpenChildren(t) ==
    {c \in TaskIds : pool.tasks[c].parent = t /\ pool.tasks[c].tasksLeft > 0}

\* C18: wait() on the handle of a submitted task returns only after the task
\* and all tasks spawned below it have finished executing; the count of a task
\* is its unfinished children plus one for itself while it has not finished;
\* with the sequential scheduler the task has run exactly once when submit
\* returns the handle, and the handle reports completed
C18_WaitReturnsAfterTaskAndChildren ==
    /\ (pool.sched = "ThreadPool" /\ pool.waiter = "returned") =>
          \A t \in TaskIds : pool.tasks[t].state = "finished" /\ pool.tasks[t].runs = 1
    /\ pool.sched = "ThreadPool" =>
          \A t \in TaskIds :
             pool.tasks[t].tasksLeft =
                 Cardinality(OpenChildren(t))
                 + (IF pool.tasks[t].state = "finished" THEN 0 ELSE 1)
    /\ (pool.sched = "SequentialScheduler" /\ pool.waiter \in {"handle", "returned"}) =>
          /\ \A t \in TaskIds : pool.tasks[t].state = "finished" /\ pool.tasks[t].runs = 1
          /\ completed(pool.sched, pool.tasks, 1)

C18_Witness ==
    /\ pool.sched = "ThreadPool"
    /\ pool.waiter = "returned"
    /\ Len(pool.tasks) = MaxTasks
    /\ \E t \in TaskIds : pool.tasks[t].parent > 1

C18_SequentialHandleReturned ==
    /\ pool.sched = "SequentialScheduler"
    /\ pool.waiter = "returned"
    /\ Len(pool.tasks) = MaxTasks

(***************************************************************************)
(* CachedGravity (lib/gravity/CachedGravity.h).  Run time and period are   *)
(* integers; the wrapped gravity is an input: it fills dv with some        *)
(* accelerations.  The run time of the statistics does not decrease        *)
(* (ASSERT(t >= t_last)).                                                  *)
(***************************************************************************)
cachedRest ==
    <<collideVars, boundaryVars, finder, gravSolver, stepper, pool, list,
      bvh>>

\* variant that looks at the time only
evalByTimeOnly(c, dv, t, result) ==
    IF t - c.t_last < c.period
    THEN [c EXCEPT !.dv = [k \in DOMAIN dv |->
                              IF k \in DOMAIN c.cachedDv THEN c.cachedDv[k] ELSE dv[k]],
                   !.evalTime = 0,
                   !.recomputed = FALSE]
    ELSE [c EXCEPT !.dv = result,
                   !.cachedDv = result,
                   !.t_last = t,
                   !.evalTime = 1,
                   !.recomputed = TRUE]

\* CachedGravity::eval(dv, stats, functor) at run time t; result is what the
\* functor leaves in dv
eval(c, dv, t, result) ==
    IF Len(dv) = Len(c.cachedDv) /\ t - c.t_last < c.period
    THEN [c EXCEPT !.dv = c.cachedDv,
                   !.evalTime = 0,
                   !.recomputed = FALSE]
    ELSE [c EXCEPT !.dv = result,
                   !.cachedDv = result,
                   !.t_last = t,
                   !.evalTime = 1,
                   !.recomputed = TRUE]

\* the history of the evaluations, kept apart from the members of the object
CachedHistory(hst, c, n, t, result) ==
    [evals |-> hst.evals + 1,
     n |-> n,
     t |-> t,
     prevN |-> hst.recN,
     prevT |-> hst.recT,
     prevDv |-> hst.recDv,
     recN |-> IF c.recomputed THEN n ELSE hst.recN,
     recT |-> IF c.recomputed THEN t ELSE hst.recT,
     recDv |-> IF c.recomputed THEN result ELSE hst.recDv]

InitCached ==
    /\ \E period \in 1..MaxPeriod :
         cached = [obj |-> [period |-> period, cachedDv |-> <<>>, t_last |-> -INFTY,
                            dv |-> <<>>, evalTime |-> 0, recomputed |-> FALSE],
                   runTime |-> 0,
                   builds |-> 0,
                   hist |-> [evals |-> 0, n |-> 0, t |-> 0, prevN |-> 0, prevT |-> 0,
                             prevDv |-> <<>>, recN |-> 0, recT |-> 0, recDv |-> <<>>]]
    /\ CollideIdle
    /\ BoundaryIdle
    /\ FinderIdle /\ GravSolverIdle /\ StepperIdle /\ PoolIdle /\ ListIdle /\ BvhIdle

\* the run advances its time between two evaluations
CachedAdvance ==
    /\ cached.runTime < MaxRunTime
    /\ cached' = [cached EXCEPT !.runTime = @ + 1]
    /\ UNCHANGED cachedRest

\* CachedGravity::build(storage): the wrapped gravity is built
CachedBuild ==
    /\ cached.builds < MaxBuilds
    /\ cached' = [cached EXCEPT !.builds = @ + 1]
    /\ UNCHANGED cachedRest

\* CachedGravity::evalAll(dv, stats) for n particles
CachedEvalAll ==
    /\ cached.hist.evals < MaxEvalCalls
    /\ \E n \in 0..MaxGravParticles, g \in 1..MaxAccel :
         LET dv == [k \in 1..n |-> 0]
             result == [k \in 1..n |-> g]
             obj == eval(cached.obj, dv, cached.runTime, result)
         IN  cached' = [cached EXCEPT
                           !.obj = obj,
                           !.hist = CachedHistory(cached.hist, obj, n,
                                                  cached.runTime, result)]
    /\ UNCHANGED cachedRest

NextCached ==
    \/ CachedAdvance
    \/ CachedBuild
    \/ CachedEvalAll

SpecCached == InitCached /\ [][NextCached]_vars

\* the last evaluation had a reason to recompute
MustRecompute ==
    \/ cached.hist.evals = 1
    \/ cached.hist.n # cached.hist.prevN
    \/ cached.hist.t - cached.hist.prevT >= cached.obj.period

\* C19: an evaluation recomputes the accelerations with the wrapped gravity
\* if and only if it is the first one, the number of particles differs from
\* the cached number or the period has elapsed since the last recomputation;
\* any other evaluation returns the accelerations of the last recomputation
C19_RecomputesIffFirstOrCountOrPeriod ==
    cached.hist.evals > 0 =>
        /\ cached.obj.recomputed <=> MustRecompute
        /\ cached.obj.recomputed => cached.obj.dv = cached.hist.recDv
        /\ ~cached.obj.recomputed => cached.obj.dv = cached.hist.prevDv

C19_Witness ==
    /\ cached.hist.evals > 1
    /\ cached.obj.recomputed
    /\ cached.hist.n # cached.hist.prevN
    /\ cached.hist.t - cached.hist.prevT < cached.obj.period

C19_CachedReturned ==
    /\ cached.hist.evals > 1
    /\ ~cached.obj.recomputed
    /\ cached.hist.t > cached.hist.prevT
    /\ cached.builds > 0

(***************************************************************************)
(* List<T> (core/objects/containers/List.h).  The nodes live in a heap     *)
(* indexed by their address 1..MaxNodes, 0 is nullptr; a deleted node      *)
(* keeps its address.  The value of a node is the number of its            *)
(* allocation.  The caller holds a few iterators.  shadow is the sequence  *)
(* of the addresses of the elements, kept as history.                      *)
(***************************************************************************)
listRest ==
    <<collideVars, boundaryVars, finder, gravSolver, stepper, pool, cached,
      bvh>>

NoNode == [value |-> 0, next |-> 0, prev |-> 0, alive |-> FALSE]

\* ListNode(value, prev, next): the neighbours are linked to the new node
newNode(nodes, addr, value, prev, next) ==
    LET n1 == [nodes EXCEPT ![addr] = [value |-> value, next |-> next,
                                       prev |-> prev, alive |-> TRUE]]
        n2 == IF prev # 0 THEN [n1 EXCEPT ![prev].next = addr] ELSE n1
    IN  IF next # 0 THEN [n2 EXCEPT ![next].prev = addr] ELSE n2

\* ListNode::detach
detach(nodes, addr) ==
    LET prev == nodes[addr].prev
        next == nodes[addr].next
        n1 == IF prev # 0 THEN [nodes EXCEPT ![prev].next = next] ELSE nodes
    IN  IF next # 0 THEN [n1 EXCEPT ![next].prev = prev] ELSE n1

\* deleteNode
deleteNode(nodes, addr) == [nodes EXCEPT ![addr].alive = FALSE]

\* ListIterator::operator++ and operator--
iterNext(nodes, node) == IF node # 0 THEN nodes[node].next ELSE node
iterPrev(nodes, node) == IF node # 0 THEN nodes[node].prev ELSE node

\* variant that leaves the pointer to the last element as it is
eraseKeepingLast(l, node) ==
    LET next == iterNext(l.nodes, node)
        detached == detach(l.nodes, node)
        first1 == IF node = l.first THEN detached[l.first].next ELSE l.first
    IN  [l EXCEPT !.nodes = deleteNode(detached, node),
                  !.first = first1,
                  !.ret = next]

\* List::erase(iter) with iter.node = node
erase(l, node) ==
    LET next == iterNext(l.nodes, node)
        detached == detach(l.nodes, node)
        first1 == IF node = l.first THEN detached[l.first].next ELSE l.first
        last1 == IF node = l.last THEN detached[l.last].prev ELSE l.last
    IN  [l EXCEPT !.nodes = deleteNode(detached, node),
                  !.first = first1,
                  !.last = last1,
                  !.ret = next]

\* List::pushBack
pushBack(l, addr, value) ==
    [l EXCEPT !.nodes = newNode(l.nodes, addr, value, l.last, 0),
              !.last = addr,
              !.first = IF l.first = 0 THEN addr ELSE l.first]

\* List::pushFront
pushFront(l, addr, value) ==
    [l EXCEPT !.nodes = newNode(l.nodes, addr, value, 0, l.first),
              !.first = addr,
              !.last = IF l.last = 0 THEN addr ELSE l.last]

\* List::insert(iter, value) with iter.node = node
insert(l, node, addr, value) ==
    [l EXCEPT !.nodes = newNode(l.nodes, addr, value, node, l.nodes[node].next),
              !.last = IF node = l.last THEN addr ELSE l.last]

\* List::empty
empty(l) == l.first = 0

\* List::size: the loop from first along next
RECURSIVE sizeFrom(_, _, _)
sizeFrom(l, ptr, fuel) ==
    IF ptr = 0 \/ fuel = 0 THEN 0 ELSE 1 + sizeFrom(l, l.nodes[ptr].next, fuel - 1)

size(l) == sizeFrom(l, l.first, MaxNodes + 1)

\* the address of a node the allocator has not given out yet
FreshAddr(l) == l.allocated + 1

\* the iterators of the caller that point to an element of the list
ValidIters(l) == {k \in DOMAIN l.iters : l.iters[k] # 0 /\ l.nodes[l.iters[k]].alive}

InitList ==
    /\ list = [nodes |-> [a \in 1..MaxNodes |-> NoNode], allocated |-> 0,
               first |-> 0, last |-> 0, iters |-> [k \in 1..MaxIterators |-> 0],
               ret |-> 0, op |-> "List", erased |-> 0,
               shadow |-> <<>>, before |-> <<>>, valid |-> {}]
    /\ CollideIdle
    /\ BoundaryIdle
    /\ FinderIdle /\ GravSolverIdle /\ StepperIdle /\ PoolIdle /\ CachedIdle /\ BvhIdle

After(l, op, shadow) == [l EXCEPT !.op = op, !.before = list.shadow, !.shadow = shadow,
                                  !.valid = ValidIters(list),
                                  !.allocated = IF op \in {"pushBack", "pushFront", "insert"}
                                                THEN @ + 1 ELSE @]

ListPushBack ==
    /\ list.allocated < MaxNodes
    /\ LET addr == FreshAddr(list)
       IN  list' = After(pushBack(list, addr, addr), "pushBack", Append(list.shadow, addr))
    /\ UNCHANGED listRest

ListPushFront ==
    /\ list.allocated < MaxNodes
    /\ LET addr == FreshAddr(list)
       IN  list' = After(pushFront(list, addr, addr), "pushFront", <<addr>> \o list.shadow)
    /\ UNCHANGED listRest

\* the position of an address in the history
PosIn(q, addr) == CHOOSE k \in DOMAIN q : q[k] = addr

ListInsert(k) ==
    /\ list.allocated < MaxNodes
    /\ k \in ValidIters(list)
    /\ LET addr == FreshAddr(list)
           node == list.iters[k]
           p == PosIn(list.shadow, node)
       IN  list' = After(insert(list, node, addr, addr), "insert",
                         SubSeq(list.shadow, 1, p) \o <<addr>>
                             \o SubSeq(list.shadow, p + 1, Len(list.shadow)))
    /\ UNCHANGED listRest

\* list.erase(iter) for one of the valid iterators of the caller
ListErase(k) ==
    /\ k \in ValidIters(list)
    /\ LET node == list.iters[k]
           p == PosIn(list.shadow, node)
       IN  list' = [After(erase(list, node), "erase",
                          SubSeq(list.shadow, 1, p - 1)
                              \o SubSeq(list.shadow, p + 1, Len(list.shadow)))
                       EXCEPT !.erased = node]
    /\ UNCHANGED listRest

\* iter = list.begin()
ListBegin(k) ==
    /\ list.iters[k] # list.first
    /\ list' = [After(list, "begin", list.shadow) EXCEPT !.iters[k] = list.first]
    /\ UNCHANGED listRest

\* ++iter and --iter on an iterator that is null or valid
ListIterNext(k) ==
    /\ k \in ValidIters(list)
    /\ list' = [After(list, "++", list.shadow)
                   EXCEPT !.iters[k] = iterNext(list.nodes, list.iters[k])]
    /\ UNCHANGED listRest

ListIterPrev(k) ==
    /\ k \in ValidIters(list)
    /\ list' = [After(list, "--", list.shadow)
                   EXCEPT !.iters[k] = iterPrev(list.nodes, list.iters[k])]
    /\ UNCHANGED listRest

NextList ==
    \/ ListPushBack
    \/ ListPushFront
    \/ \E k \in 1..MaxIterators : ListInsert(k)
    \/ \E k \in 1..MaxIterators : ListErase(k)
    \/ \E k \in 1..MaxIterators : ListBegin(k)
    \/ \E k \in 1..MaxIterators : ListIterNext(k)
    \/ \E k \in 1..MaxIterators : ListIterPrev(k)

SpecList == InitList /\ [][NextList]_vars

\* the elements met from first along next, and from last along prev
RECURSIVE Forward(_, _, _)
Forward(l, ptr, fuel) ==
    IF ptr = 0 \/ fuel = 0 THEN <<>>
    ELSE <<ptr>> \o Forward(l, l.nodes[ptr].next, fuel - 1)

RECURSIVE Backward(_, _, _)
Backward(l, ptr, fuel) ==
    IF ptr = 0 \/ fuel = 0 THEN <<>>
    ELSE Backward(l, l.nodes[ptr].prev, fuel - 1) \o <<ptr>>

\* the list is consistent with the elements it should hold
ListConsistent ==
    /\ Forward(list, list.first, MaxNodes + 1) = list.shadow
    /\ Backward(list, list.last, MaxNodes + 1) = list.shadow
    /\ \A k \in DOMAIN list.shadow : list.nodes[list.shadow[k]].alive
    /\ size(list) = Len(list.shadow)
    /\ empty(list) <=> size(list) = 0
    /\ ~empty(list) =>
          /\ list.nodes[list.first].value = list.shadow[1]
          /\ list.nodes[list.last].value = list.shadow[Len(list.shadow)]

\* what erase has done to the list and to the iterators
EraseContract ==
    LET p == PosIn(list.before, list.erased)
    IN  /\ list.shadow = SubSeq(list.before, 1, p - 1)
                            \o SubSeq(list.before, p + 1, Len(list.before))
        /\ list.ret = IF p = Len(list.before) THEN 0 ELSE list.before[p + 1]
        /\ ~list.nodes[list.erased].alive
        /\ \A k \in list.valid :
              list.iters[k] # list.erased =>
                  /\ list.nodes[list.iters[k]].alive
                  /\ list.nodes[list.iters[k]].value = list.iters[k]
                  /\ \E q \in DOMAIN list.shadow : list.shadow[q] = list.iters[k]

\* C20: erase at a valid iterator removes exactly that element, returns the
\* iterator to the element that followed it (null after the last one) and
\* leaves every other iterator at its element; after any erases and pushes
\* the list is consistent: empty iff its size is 0, front and back are the
\* first and the last element that remain
C20_EraseKeepsListConsistent ==
    /\ ListConsistent
    /\ list.op = "erase" => EraseContract

C20_Witness ==
    /\ list.op = "erase"
    /\ list.shadow # <<>>
    /\ list.erased = list.before[Len(list.before)]
    /\ \E k \in list.valid : list.iters[k] # list.erased

C20_PushAfterErasingAll ==
    /\ list.op = "pushBack"
    /\ list.before = <<>>
    /\ list.allocated = MaxNodes
    /\ Len(list.shadow) = 1

(***************************************************************************)
(* Properties of the processing loop of HardSphereSolver::collide          *)
(***************************************************************************)
\* a step of the processing loop: one more record has been given to a handler
LoopIteration == Len(handled') = Len(handled) + 1

\* the record that step took from the queue
Taken == handled'[Len(handled')].rec

\* C21: the record each iteration of the processing loop takes from the
\* queue is the least pending record under operator<, the lexicographic
\* order of (collisionTime, -overlap, i, j)
C21_TakenIsLeastPendingRecord ==
    [][LoopIteration =>
          \A c \in Range(collisions) : c = Taken \/ RecordLess(Taken, c)]_vars

\* what the scan of lines 278-284 gives: no pending record has a smaller
\* contact time, and none with the same time stands before it in the list
C21_TakenIsFirstOfLeastTime ==
    [][LoopIteration =>
          \E idx \in DOMAIN collisions :
              /\ collisions[idx] = Taken
              /\ \A k \in DOMAIN collisions :
                    Taken.collisionTime <= collisions[k].collisionTime
              /\ \A k \in 1..(idx - 1) :
                    Taken.collisionTime < collisions[k].collisionTime]_vars

\* two records with the same contact time wait in the queue and the one that
\* stands first is not the lesser of the two
C21_TieInQueue ==
    /\ pc = "loop"
    /\ \E a, b \in DOMAIN collisions :
          /\ a < b
          /\ collisions[a].collisionTime = collisions[b].collisionTime
          /\ RecordLess(collisions[b], collisions[a])
          /\ \A k \in DOMAIN collisions :
                collisions[a].collisionTime <= collisions[k].collisionTime

\* C22: every processed record went to one handler, the overlap handler if
\* its overlap is positive and the collision handler otherwise, and the loop
\* acted on the result that handler returned
C22_LoopActsOnReturnedResult ==
    \A e \in Range(handled) :
        /\ e.handler = (IF isOverlap(e.rec) THEN "overlap" ELSE "collision")
        /\ e.result = e.returned

\* what lines 300-309 give: the result of the collision handler is the one the
\* loop acts on, an overlap is a bounce whatever its handler did
C22_CollisionResultOrBounce ==
    \A e \in Range(handled) :
        /\ e.handler = (IF isOverlap(e.rec) THEN "overlap" ELSE "collision")
        /\ e.result = (IF isOverlap(e.rec) THEN "BOUNCE" ELSE e.returned)

\* an overlap whose handler found nothing to do has been processed
C22_OverlapHandledAsNone ==
    \E e \in Range(handled) : isOverlap(e.rec) /\ e.returned = "NONE"

\* the result the loop acted on in that step
TakenResult == handled'[Len(handled')].result

Involves(c, i, j) == c.i = i \/ c.i = j \/ c.j = i \/ c.j = j

\* the particles of the pending records that involve i or j; the record taken
\* is one of them
InvalidOf(i, j) == UNION {{c.i, c.j} : c \in {d \in Range(collisions) : Involves(d, i, j)}}

\* the records a scan of particle k can return once the event has been handled
Rescanned(k, lower) ==
    {out.rec : out \in findClosestCollision(r', v', k, "USE_RADII", lower, Dt, removed')}

\* the queue after an event of the particles i, j at t_coll: the records of
\* other particles are still pending, every other record comes from a scan of
\* a particle that lost a record and has not been removed, and each of i, j
\* that has not been removed has the record of its scan in the queue, unless
\* drop holds of it
QueueAfterEvent(i, j, t_coll, drop(_)) ==
    LET lower == t_coll + EPS
        scanned == IF lower > Dt THEN {} ELSE InvalidOf(i, j) \ removed'
    IN  /\ \A c \in Range(collisions) :
              ~Involves(c, i, j) => c \in Range(collisions')
        /\ \A c \in Range(collisions') :
              \/ c \in Range(collisions) /\ ~Involves(c, i, j)
              \/ \E k \in scanned : c \in Rescanned(k, lower) /\ IsSome(c)
        /\ \A k \in {i, j} \cap scanned :
              \E c \in Rescanned(k, lower) :
                  (IsSome(c) /\ ~drop(c)) => c \in Range(collisions')

NeverDropped(c) == FALSE

IsWithout(a, b, rem) ==
    /\ Len(a) = Len(b) - Cardinality(rem \cap DOMAIN b)
    /\ \A k \in DOMAIN b \ rem : a[k - Cardinality({m \in rem : m < k})] = b[k]

LoopEnds == pc = "loop" /\ pc' = "done"

\* C24: no step of collide() but the end of the processing loop changes the
\* particle count of the storage or of a dependent storage; at the end of the
\* loop the rows of the removal set, and no others, leave every buffer of the
\* storage and every dependent storage, and nothing is removed after that
C24_RemovalAppliedOnceAfterLoop ==
    [][/\ ~LoopEnds =>
             /\ Len(r') = Len(r) /\ Len(v') = Len(v) /\ Len(h') = Len(h)
             /\ \A d \in DOMAIN depStores : Len(depStores'[d]) = Len(depStores[d])
       /\ LoopEnds =>
             /\ IsWithout(r', r, removed)
             /\ IsWithout(v', v, removed)
             /\ IsWithout(h', h, removed)
             /\ DOMAIN depStores' = DOMAIN depStores
             /\ \A d \in DOMAIN depStores : IsWithout(depStores'[d], depStores[d], removed)
             /\ removed \subseteq DOMAIN r]_vars

\* a step has ended in which two particles were marked: one particle is left
\* in the storage and the same one in each dependent storage
C24_Witness ==
    /\ pc = "done"
    /\ Cardinality(removed) = 2
    /\ Len(r) = MaxParticles - 2
    /\ depStores # <<>>
    /\ \A d \in DOMAIN depStores :
          depStores[d] = SortedSeq((1..MaxParticles) \ removed)

HasRemoved(c, rem) == c.i \in rem \/ c.j \in rem

\* C25: in the processing loop the record taken from the queue holds no index
\* that was put into the removal set before, and after the iteration no
\* record of the queue, pushed or left in it, holds an index of the removal
\* set
C25_RemovedIndexInNoLaterRecord ==
    [][pc = "loop" =>
          /\ LoopIteration => ~HasRemoved(Taken, removed)
          /\ pc' = "loop" => \A c \in Range(collisions') : ~HasRemoved(c, removed')]_vars

\* a particle has been removed by a merger, a record of a third particle with
\* the survivor was found by the re-scan and waits in the queue
C25_Witness ==
    /\ pc = "loop"
    /\ removed # {}
    /\ handled # <<>>
    /\ LET e == handled[Len(handled)]
       IN  /\ e.result = "MERGER"
           /\ \E c \in Range(collisions) :
                 /\ Involves(c, e.rec.i, e.rec.j)
                 /\ ~SamePair(c, e.rec.i, e.rec.j)

RECURSIVE Pow(_, _)
Pow(b, e) == IF e = 0 THEN 1 ELSE b * Pow(b, e - 1)

\* the number of intervals of length EPS, begun ones included, between the
\* time of a record and the end of the step
Level(c) == (Dt - c.collisionTime) \div EPS + 1

\* a record outweighs all the records one iteration can push, which are at
\* most one per particle and lie at least one level below the record taken
Weight(c) == Pow(MaxParticles + 1, Level(c))

RECURSIVE SumWeights(_, _)
SumWeights(colls, k) ==
    IF k > Len(colls) THEN 0 ELSE Weight(colls[k]) + SumWeights(colls, k + 1)

\* the model makes no more than MaxEvents iterations in a step
Capped == pc = "loop" /\ collisions # <<>> /\ Len(handled) = MaxEvents

WritersOf(k) == {w.task : w \in written[k]}

\* C27: during the first pass no element of the state the tasks share, the
\* array searchRadii, is assigned by two tasks
C27_NoElementWrittenByTwoTasks ==
    pc = "sweep" => \A k \in DOMAIN written : Cardinality(WritersOf(k)) <= 1

\* what holds of the first pass: a task assigns only its own element and the
\* elements of its neighbours of lower rank, and none of them is read
C27_TaskWritesOwnAndLowerRank ==
    pc = "sweep" =>
        \A k \in DOMAIN written : \A i \in WritersOf(k) :
            /\ i \in swept
            /\ i = k \/ rank[k] < rank[i]

\* two tasks have assigned different values to one element
C27_RaceOnSearchRadius ==
    /\ pc = "sweep"
    /\ \E k \in DOMAIN written : Cardinality({w.value : w \in written[k]}) >= 2

(***************************************************************************)
(* Properties of the ghost list kept as user data of the storage           *)
(***************************************************************************)
\* a removal from a storage that holds a ghost list
RemovalWithGhosts == phase' = "removed" /\ st' # st /\ userData.has

\* how many ghosts of the list gs, leaving out those of the particles idxs,
\* have the particle with the number x in the storage s as their source
GhostsOfSource(gs, s, idxs, x) ==
    Cardinality({k \in DOMAIN gs :
                    /\ gs[k].index \notin idxs
                    /\ gs[k].index \in DOMAIN s.id
                    /\ s.id[gs[k].index] = x})

\* C28: after a removal every ghost left in the list has a source index
\* inside the storage, and each particle left is the source of as many ghosts
\* as before
C28_GhostsKeepTheirSource ==
    [][RemovalWithGhosts =>
          /\ \A g \in Range(userData'.ghosts) : g.index \in DOMAIN st'.id
          /\ \A x \in Range(st.id) :
                GhostsOfSource(userData'.ghosts, st', {}, x)
                    = GhostsOfSource(userData.ghosts, st, hist'.removedIdxs, x)]_vars

\* what GhostParticlesData::remove gives: the ghosts left are ghosts of the
\* list before, their source index as it was
C28_GhostsKeepTheirIndex ==
    [][RemovalWithGhosts =>
          \A g \in Range(userData'.ghosts) :
              g \in Range(userData.ghosts) /\ g.index \notin hist'.removedIdxs]_vars

\* a particle below the source of a ghost has been removed, the ghost is left
C28_ShiftedSourceReached ==
    /\ phase = "removed" /\ userData.has
    /\ \E g \in Range(userData.ghosts) : \E x \in hist.removedIdxs : x < g.index

(***************************************************************************)
(* Bvh<TBvhObject> (objects/finders/Bvh.inl.h)                             *)
(*                                                                         *)
(* The objects lie on the x axis; the centre of an object is 4^k and its   *)
(* bounding box is a small interval around the centre, so that an object   *)
(* is given by its exponent k and boxes of different exponents are         *)
(* disjoint and ordered as the exponents.  The box of a node is the pair   *)
(* of the least and the greatest exponent of its range.  Indices are       *)
(* 0-based as in the code.  A value of type Size above 2^31 is written as  *)
(* its two's complement: 0xffffffff is -1, 0xfffffffd is -3, 0xfffffffc is *)
(* -4; the only arithmetic on them is the decrement of line 194.           *)
(* parentOf is history: the parent of the build entry of every node.       *)
(***************************************************************************)
BuildStackSize == 128
TraversalStackSize == 64
UNTOUCHED == -1
NO_PARENT == -4
TOUCHED_TWICE == -3

at(s, idx) == s[idx + 1]

\* Box::extend over the centres of objects[start..end-1]: the lower bound
lowerExp(objs, start, end) ==
    LET S == {at(objs, i) : i \in start..(end - 1)}
    IN  CHOOSE m \in S : \A x \in S : m <= x

\* Box::extend over the centres of objects[start..end-1]: the upper bound
upperExp(objs, start, end) ==
    LET S == {at(objs, i) : i \in start..(end - 1)}
    IN  CHOOSE m \in S : \A x \in S : m >= x

\* objects[i].getCenter()[splitDim] < split, with split the mean of 4^lo
\* and 4^hi: for lo = hi no centre is below the split; for lo < hi the
\* split lies strictly between 4^(hi-1) and 4^hi, in floating point too,
\* since 0.5 * (4^lo + 4^hi) >= 2 * 4^(hi-1)
belowSplit(k, lo, hi) == lo < hi /\ k < hi

\* the partition loop of build: every object below the split is swapped
\* to position mid, which then advances.  The objects below the split end
\* in front of the range in their order; the others follow, and they are
\* all of exponent hi (or the range is left as it was, when lo = hi)
partition(objs, start, end, lo, hi) ==
    LET range == SubSeq(objs, start + 1, end)
        Below(k) == belowSplit(k, lo, hi)
        NotBelow(k) == ~belowSplit(k, lo, hi)
        front == SelectSeq(range, Below)
        back == SelectSeq(range, NotBelow)
    IN  [objects |-> SubSeq(objs, 1, start) \o front \o back
                         \o SubSeq(objs, end + 1, Len(objs)),
         mid |-> start + Len(front)]

\* a split that leaves one side empty is replaced by the middle
midOf(mid, start, end) ==
    IF mid = start \/ mid = end THEN start + ((end - start) \div 2) ELSE mid

\* variant: the offset is stored when the first child touches the parent
touchedOnce(offset, cnt, parent) ==
    IF offset - 1 = UNTOUCHED - 1 THEN cnt - 1 - parent ELSE offset - 1

\* a child touches its parent: the second touch stores the offset
touched(offset, cnt, parent) ==
    IF offset - 1 = TOUCHED_TWICE THEN cnt - 1 - parent ELSE offset - 1

BvhInputs ==
    UNION {[1..n -> 0..MaxExponent] : n \in 1..MaxObjects}

\* one object per exponent: every split takes the last object alone
BvhChains ==
    {[k \in 1..n |-> k - 1] : n \in {TraversalStackSize + 1, BuildStackSize + 1}}

NoRay == [dir |-> 0, reach |-> 0, all |-> TRUE]

\* Bvh(leafSize) and the array handed to build
InitBvh ==
    /\ \E objs \in BvhInputs \cup BvhChains, ls \in 1..MaxLeafSize :
        bvh = [pc |-> "idle", leafSize |-> ls, objects |-> objs,
               nodes |-> <<>>, nodeCnt |-> 0, leafCnt |-> 0,
               stack |-> <<>>, parentOf |-> <<>>,
               tstack |-> <<>>, ray |-> NoRay, hits |-> {}]
    /\ CollideIdle /\ BoundaryIdle
    /\ FinderIdle /\ GravSolverIdle /\ StepperIdle /\ PoolIdle /\ CachedIdle
    /\ ListIdle

bvhRest ==
    <<collideVars, boundaryVars, finder, gravSolver, stepper, pool, cached,
      list>>

\* Bvh::build up to the loop: the root is pushed
Build ==
    /\ bvh.pc = "idle"
    /\ Len(bvh.objects) > 0
    /\ bvh' = [bvh EXCEPT !.pc = "build", !.nodeCnt = 0, !.leafCnt = 0,
                          !.nodes = <<>>, !.parentOf = <<>>,
                          !.stack = <<[parent |-> NO_PARENT, start |-> 0,
                                       end |-> Len(bvh.objects)]>>]
    /\ UNCHANGED bvhRest

\* one iteration of the loop of Bvh::build
BuildIterate ==
    /\ bvh.pc = "build"
    /\ Len(bvh.stack) > 0
    /\ LET nodeEntry == bvh.stack[Len(bvh.stack)]
           below == SubSeq(bvh.stack, 1, Len(bvh.stack) - 1)
           start == nodeEntry.start
           end == nodeEntry.end
           primCnt == end - start
           cnt == bvh.nodeCnt + 1
           lo == lowerExp(bvh.objects, start, end)
           hi == upperExp(bvh.objects, start, end)
           isLeaf == primCnt <= bvh.leafSize
           node == [start |-> start, primCnt |-> primCnt,
                    rightOffset |-> IF isLeaf THEN 0 ELSE UNTOUCHED,
                    lo |-> lo, hi |-> hi]
           pushed == Append(bvh.nodes, node)
           buildNodes ==
               IF nodeEntry.parent # NO_PARENT
               THEN [pushed EXCEPT ![nodeEntry.parent + 1].rightOffset =
                        touched(@, cnt, nodeEntry.parent)]
               ELSE pushed
           part == partition(bvh.objects, start, end, lo, hi)
           mid == midOf(part.mid, start, end)
           stack2 == below \o <<[parent |-> cnt - 1, start |-> mid, end |-> end],
                               [parent |-> cnt - 1, start |-> start, end |-> mid]>>
       IN  IF isLeaf
           THEN bvh' = [bvh EXCEPT !.nodes = buildNodes, !.nodeCnt = cnt,
                                   !.leafCnt = @ + 1, !.stack = below,
                                   !.parentOf = Append(@, nodeEntry.parent)]
           ELSE bvh' = [bvh EXCEPT !.nodes = buildNodes, !.nodeCnt = cnt,
                                   !.objects = part.objects,
                                   !.stack = stack2,
                                   !.parentOf = Append(@, nodeEntry.parent),
                                   !.pc = IF Len(stack2) > BuildStackSize
                                          THEN "overflow" ELSE "build"]
    /\ UNCHANGED bvhRest

\* the end of Bvh::build: the nodes are moved into the tree
BuildEnd ==
    /\ bvh.pc = "build"
    /\ Len(bvh.stack) = 0
    /\ Len(bvh.nodes) = bvh.nodeCnt
    /\ bvh' = [bvh EXCEPT !.pc = "built"]
    /\ UNCHANGED bvhRest

(***************************************************************************)
(* Bvh::getIntersections.  A ray runs along the x axis from outside of all *)
(* objects: dir = 1 from below the least centre towards greater x, dir =   *)
(* -1 from above the greatest centre towards lesser x; its segment ends    *)
(* behind the objects of exponent reach.  all tells whether the callback   *)
(* asks to continue after a hit (getFirstIntersection and                  *)
(* getAllIntersections) or not (isOccluded).  The member t_min of a        *)
(* traversal entry is written and never read; it is left out.              *)
(***************************************************************************)
BvhRays(objs) ==
    [dir : {1, -1},
     reach : 0..MaxExponent \cup {upperExp(objs, 0, Len(objs))},
     all : BOOLEAN]

\* intersectBox: the box [4^lo, 4^hi] meets the segment of the ray
intersectBox(box, ray) ==
    IF ray.dir = 1 THEN box.lo <= ray.reach ELSE box.hi >= ray.reach

\* segment.lower() of intersectBox, up to an increasing function: the ray
\* enters the box at its near side
segmentLower(box, ray) ==
    IF ray.dir = 1 THEN box.lo ELSE 0 - box.hi

\* TBvhObject::getIntersection of the object of exponent k
objectHit(k, ray) ==
    IF ray.dir = 1 THEN k <= ray.reach ELSE k >= ray.reach

\* the entries pushed for an inner node, the last one on top
pushedFor(nodes, idx, ray) ==
    LET node == at(nodes, idx)
        left == idx + 1
        right == idx + node.rightOffset
        hitc0 == intersectBox(at(nodes, left), ray)
        hitc1 == intersectBox(at(nodes, right), ray)
        swapped == segmentLower(at(nodes, right), ray)
                       < segmentLower(at(nodes, left), ray)
        closer == IF swapped THEN right ELSE left
        other == IF swapped THEN left ELSE right
    IN  IF hitc0 /\ hitc1 THEN <<[idx |-> other], [idx |-> closer]>>
        ELSE IF hitc0 THEN <<[idx |-> left]>>
        ELSE IF hitc1 THEN <<[idx |-> right]>>
        ELSE <<>>

\* getIntersections up to the loop: the root is pushed
GetIntersections ==
    /\ bvh.pc = "built"
    /\ \E ray \in BvhRays(bvh.objects) :
        bvh' = [bvh EXCEPT !.pc = "traverse", !.ray = ray, !.hits = {},
                           !.tstack = <<[idx |-> 0]>>]
    /\ UNCHANGED bvhRest

\* one iteration of the loop of getIntersections
TraverseIterate ==
    /\ bvh.pc = "traverse"
    /\ Len(bvh.tstack) > 0
    /\ LET idx == bvh.tstack[Len(bvh.tstack)].idx
           below == SubSeq(bvh.tstack, 1, Len(bvh.tstack) - 1)
           node == at(bvh.nodes, idx)
           hit == {p \in node.start..(node.start + node.primCnt - 1) :
                      objectHit(at(bvh.objects, p), bvh.ray)}
           first == CHOOSE p \in hit : \A q \in hit : p <= q
           tstack2 == below \o pushedFor(bvh.nodes, idx, bvh.ray)
       IN  IF node.rightOffset = 0
           THEN IF hit # {} /\ ~bvh.ray.all
                THEN bvh' = [bvh EXCEPT !.hits = @ \cup {first},
                                        !.pc = "built"]
                ELSE bvh' = [bvh EXCEPT !.hits = @ \cup hit,
                                        !.tstack = below]
           ELSE bvh' = [bvh EXCEPT !.tstack = tstack2,
                                   !.pc = IF Len(tstack2) > TraversalStackSize
                                          THEN "overflow" ELSE "traverse"]
    /\ UNCHANGED bvhRest

\* the end of getIntersections
TraverseEnd ==
    /\ bvh.pc = "traverse"
    /\ Len(bvh.tstack) = 0
    /\ bvh' = [bvh EXCEPT !.pc = "built"]
    /\ UNCHANGED bvhRest

NextBvh ==
    \/ Build
    \/ BuildIterate
    \/ BuildEnd
    \/ GetIntersections
    \/ TraverseIterate
    \/ TraverseEnd

SpecBvh == InitBvh /\ [][NextBvh]_vars

(***************************************************************************)
(* Properties of the bounding volume hierarchy                             *)
(***************************************************************************)
BvhBuilt == bvh.pc = "built"

BvhIsLeaf(idx) == at(bvh.nodes, idx).rightOffset = 0

\* the nodes whose build entry named idx as the parent
ChildrenOf(idx) ==
    {c \in 0..(bvh.nodeCnt - 1) : at(bvh.parentOf, c) = idx}

InRange(p, node) == node.start <= p /\ p < node.start + node.primCnt

\* C29: after Bvh::build on a non-empty array every node is either a leaf,
\* with right offset 0 and at most leafSize primitives, or an inner node
\* that was touched by exactly two children, the left one at idx + 1 and
\* the right one at idx + rightOffset, which split its range; no node keeps
\* the untouched or the touched-once value, and the ranges of the leaves
\* partition the object array.
C29_BuiltTreeIsWellFormed ==
    BvhBuilt =>
        /\ Len(bvh.nodes) = bvh.nodeCnt
        /\ Len(bvh.parentOf) = bvh.nodeCnt
        /\ \A idx \in 0..(bvh.nodeCnt - 1) :
            LET node == at(bvh.nodes, idx)
                kids == ChildrenOf(idx)
                left == idx + 1
                right == idx + node.rightOffset
            IN  IF node.rightOffset = 0
                THEN node.primCnt <= bvh.leafSize /\ kids = {}
                ELSE /\ node.rightOffset >= 2
                     /\ right < bvh.nodeCnt
                     /\ Cardinality(kids) = 2
                     /\ kids = {left, right}
                     /\ at(bvh.nodes, left).start = node.start
                     /\ at(bvh.nodes, left).primCnt > 0
                     /\ at(bvh.nodes, right).primCnt > 0
                     /\ at(bvh.nodes, right).start
                            = node.start + at(bvh.nodes, left).primCnt
                     /\ at(bvh.nodes, left).primCnt + at(bvh.nodes, right).primCnt
                            = node.primCnt
        /\ \A p \in 0..(Len(bvh.objects) - 1) :
            Cardinality({idx \in 0..(bvh.nodeCnt - 1) :
                            BvhIsLeaf(idx) /\ InRange(p, at(bvh.nodes, idx))}) = 1
        /\ bvh.leafCnt = Cardinality({idx \in 0..(bvh.nodeCnt - 1) : BvhIsLeaf(idx)})

\* a built tree whose root has an inner node as its left child
C29_Witness ==
    /\ bvh.pc = "built"
    /\ bvh.nodeCnt >= 5
    /\ at(bvh.nodes, 0).rightOffset >= 3
    /\ ~BvhIsLeaf(1)

\* C30: the work stacks of the BVH never overflow: Bvh::build never holds
\* more than 128 pending build entries and getIntersections never holds
\* more than 64 pending nodes, for every non-empty input and leaf size.
C30_WorkStacksNeverOverflow ==
    /\ Len(bvh.stack) <= BuildStackSize
    /\ Len(bvh.tstack) <= TraversalStackSize

\* build writes behind the last element of its stack
C30_BuildStackOverflows ==
    bvh.pc = "overflow" /\ Len(bvh.stack) > BuildStackSize

\* getIntersections writes behind the last element of its stack
C30_TraversalStackOverflows ==
    bvh.pc = "overflow" /\ Len(bvh.tstack) > TraversalStackSize

\* what bounds the stacks is the number of objects: each pending entry but
\* the top one is the sibling of a different inner node of one path
C30_StacksBoundedByObjectCount ==
    LET most == IF Len(bvh.objects) > bvh.leafSize
                THEN Len(bvh.objects) - bvh.leafSize + 1 ELSE 1
    IN  Len(bvh.stack) <= most /\ Len(bvh.tstack) <= most

====
